---- MODULE Spec2Model ----
(***************************************************************************)
(* Google Drive manager backend: session / API-key authentication, OAuth   *)
(* token refresh and the Drive operation handlers, as a state machine over *)
(* the relational store (users, sessions, api_keys, audit_logs) and the    *)
(* in-flight handler invocations.  Every `await` of a handler is one step  *)
(* of its invocation, so invocations interleave exactly where the code     *)
(* yields.  Time is counted in minutes.                                    *)
(***************************************************************************)
EXTENDS Integers, Sequences, FiniteSets, TLC

VARIABLES now, users, sessions, apiKeys, auditLogs, inv, nreq, storeFaults

vars == <<now, users, sessions, apiKeys, auditLogs, inv, nreq, storeFaults>>

(* ------------------------------ bounds --------------------------------- *)
\* the clock stops at MaxTime
MaxTime == 2
\* calls made in a run
MaxReq == 2
\* createApiKey and validateApiKey calls made in a run of the key life cycle
MaxKeyCalls == 4
\* requests sent through the router in a run
MaxRouted == 1
\* calls made in a run in which every operation of the system may be called
MaxSystemCalls == 2
\* downloadFile and openWorkspaceDoc calls made in a run over the drive's files
MaxFileCalls == 1

Procs == {1, 2}

(* --------------------------- program constants ------------------------- *)
\* 5 * 60 * 1000 ms, the proactive refresh buffer, in minutes
RefreshBufferMin == 5
\* `data.expires_in || 3600` seconds of openWorkspaceDoc's refresh, in minutes
DefaultExpiresInMin == 60
\* handleAuthCallback: expires_in: 3600 of the code exchange; sessions last 24 hours
AuthExpiresInMin == 60
SessionTtlMin == 1440

NoTime == -1
\* an absent optional token (refresh_token?: string)
NoToken == -1

(* ------------------------------ strings -------------------------------- *)
\* Strings are sequences of characters; " " is the whitespace character.
RECURSIVE TrimStart(_)
TrimStart(s) == IF s # <<>> /\ Head(s) = " " THEN TrimStart(Tail(s)) ELSE s

RECURSIVE TrimEnd(_)
TrimEnd(s) ==
    IF s # <<>> /\ s[Len(s)] = " " THEN TrimEnd(SubSeq(s, 1, Len(s) - 1)) ELSE s

\* String.prototype.trim
Trim(s) == TrimEnd(TrimStart(s))

(* ------------------------------ values --------------------------------- *)
\* A JavaScript value handed to validateSession: a string or something else.
StrVal(s) == [type |-> "string", str |-> s, truthy |-> s # <<>>]
NonStrings ==
    { [type |-> "null", str |-> <<>>, truthy |-> FALSE],
      [type |-> "undefined", str |-> <<>>, truthy |-> FALSE],
      [type |-> "number", str |-> <<>>, truthy |-> FALSE],
      [type |-> "number", str |-> <<>>, truthy |-> TRUE] }

\* UserContext | null, or a thrown error
NullCtx == [kind |-> "null", userId |-> 0, googleId |-> "", email |-> ""]
Thrown == [kind |-> "throw", userId |-> 0, googleId |-> "", email |-> ""]
UserContext(uid, u) ==
    [kind |-> "ctx", userId |-> uid, googleId |-> u.google_id, email |-> u.email]

(* ------------------------------- store --------------------------------- *)
\* Rows of a table are the elements of a sequence; the serial id is the index.
ExpirySeeds == {1, 8}

SeedUser(gid, mail, expiry) ==
    [google_id |-> gid, email |-> mail, access_token |-> 0,
     refresh_token |-> 0, token_expiry |-> expiry, updated_at |-> 0]

SeedSessions ==
    << [user_id |-> 1, session_token |-> <<"x">>, expires_at |-> 1, is_active |-> TRUE],
       [user_id |-> 2, session_token |-> <<"y">>, expires_at |-> 9, is_active |-> TRUE],
       [user_id |-> 1, session_token |-> <<"z">>, expires_at |-> 9, is_active |-> FALSE] >>

SeedApiKeys ==
    << [user_id |-> 1, api_key |-> <<"k">>, is_active |-> TRUE, last_used_at |-> NoTime],
       [user_id |-> 2, api_key |-> <<"m">>, is_active |-> TRUE, last_used_at |-> NoTime],
       [user_id |-> 2, api_key |-> <<"n">>, is_active |-> FALSE, last_used_at |-> NoTime] >>

(* ----------------------------- invocations ----------------------------- *)
NoUpdate ==
    [access_token |-> NoToken, token_expiry |-> 0, updated_at |-> 0,
     refresh_token |-> NoToken]
NoSize == -1
NoMeta ==
    [status |-> 0, mimeType |-> "", hasOwners |-> FALSE, owners |-> {},
     trashed |-> FALSE, name |-> "", size |-> NoSize]

\* downloadFile's downloadUrl, before it is chosen
NoUrl == [endpoint |-> "", mimeType |-> ""]
NoFile == ""

DigitChars == << "0", "1", "2", "3", "4", "5", "6", "7", "8", "9" >>
IsDigit(c) == \E d \in DOMAIN DigitChars : DigitChars[d] = c

\* Number to decimal text, as a template literal renders it
RECURSIVE Decimal(_)
Decimal(n) ==
    IF n < 10 THEN << DigitChars[n + 1] >>
    ELSE Decimal(n \div 10) \o << DigitChars[(n % 10) + 1] >>

\* Characters to a string
RECURSIVE Join(_)
Join(s) == IF s = <<>> THEN "" ELSE Head(s) \o Join(Tail(s))

\* ListFilesInput: folderId and query are optional ("" when absent), pageSize
\* defaults to 100
NoInput == [folderId |-> "", query |-> "", pageSize |-> 100]

\* handleAuthCallback's userProfile, before it is fetched
NoProfile == [id |-> "", email |-> ""]

\* An invocation slot with no request in it.
Idle ==
    [pc |-> "idle", id |-> 0, route |-> "", op |-> "", arg |-> StrVal(<<>>),
     ctx |-> NullCtx, fileId |-> NoFile, now0 |-> 0, expiry0 |-> NoTime,
     access0 |-> NoToken, access |-> NoToken, rtok |-> NoToken,
     refresh |-> "none", rot |-> NoToken, upd |-> NoUpdate, meta |-> NoMeta, err |-> "", calls |-> <<>>,
     result |-> "", ret |-> NullCtx, out |-> <<>>,
     tokenText |-> <<>>, profile |-> NoProfile, uid |-> 0, start |-> 0,
     replies |-> <<>>, message |-> "", audit |-> "none",
     failAudit |-> "none", input |-> NoInput,
     downloadUrl |-> NoUrl, finalMimeType |-> "", finalName |-> <<>>,
     editUrl |-> "", viewUrl |-> "", pageToken |-> "", params |-> <<>>,
     expiresIn |-> 0]

\* Whether a statement sent to the store succeeds: always, unless the run is
\* one in which the store may fail.
StoreOutcomes == IF storeFaults THEN BOOLEAN ELSE {TRUE}

\* A slot takes a new call when the invocation in it, if any, has ended.
Vacant(p) == inv[p].pc \in {"idle", "done"}
Free(p) == Vacant(p) /\ nreq < MaxReq

(* --------------------------- validateSession --------------------------- *)
\* !sessionToken || typeof sessionToken !== 'string' || sessionToken.trim() === ''
SessionTokenRejected(v) ==
    ~v.truthy \/ v.type # "string" \/ Trim(v.str) = <<>>

\* sessions INNER JOIN users WHERE session_token = tok AND is_active = true
SessionLookup(tok) ==
    { i \in DOMAIN sessions :
        /\ sessions[i].session_token = tok
        /\ sessions[i].is_active
        /\ sessions[i].user_id \in DOMAIN users }

\* sessions.expires_at <= now
SessionExpiredStrict(s, t) == s.expires_at < t
SessionExpired(s, t) == s.expires_at <= t

\* UPDATE sessions SET is_active = false WHERE id = i
DeactivateEverySession(i) ==
    [j \in DOMAIN sessions |-> [sessions[j] EXCEPT !.is_active = FALSE]]
DeactivateNothing(i) == sessions
DeactivateSession(i) == [sessions EXCEPT ![i].is_active = FALSE]

FirstRow(rows) == CHOOSE i \in rows : \A j \in rows : i <= j

\* The try block: what it returns or that it threw, and the sessions table after.
validateSessionTry(v, lookupOk, writeOk) ==
    IF SessionTokenRejected(v)
    THEN [threw |-> FALSE, ret |-> NullCtx, sessions |-> sessions]
    ELSE IF ~lookupOk
    THEN [threw |-> TRUE, ret |-> Thrown, sessions |-> sessions]
    ELSE LET results == SessionLookup(Trim(v.str)) IN
         IF results = {}
         THEN [threw |-> FALSE, ret |-> NullCtx, sessions |-> sessions]
         ELSE LET i == FirstRow(results) IN
              IF SessionExpired(sessions[i], now)
              THEN IF writeOk
                   THEN [threw |-> FALSE, ret |-> NullCtx,
                         sessions |-> DeactivateSession(i)]
                   ELSE [threw |-> TRUE, ret |-> Thrown, sessions |-> sessions]
              ELSE [threw |-> FALSE,
                    ret |-> UserContext(sessions[i].user_id, users[sessions[i].user_id]),
                    sessions |-> sessions]

\* catch (error) { console.error(...); return null; }
SessionCatchRethrow(r) == r
SessionCatch(r) == IF r.threw THEN [r EXCEPT !.threw = FALSE, !.ret = NullCtx] ELSE r

validateSession(v, lookupOk, writeOk) ==
    SessionCatch(validateSessionTry(v, lookupOk, writeOk))

(* --------------------------- validateApiKey ---------------------------- *)
\* api_keys INNER JOIN users WHERE api_key = k AND is_active = true
ApiKeyLookupTrimmed(k) ==
    { i \in DOMAIN apiKeys :
        /\ apiKeys[i].api_key = Trim(k)
        /\ apiKeys[i].is_active
        /\ apiKeys[i].user_id \in DOMAIN users }
ApiKeyLookup(k) ==
    { i \in DOMAIN apiKeys :
        /\ apiKeys[i].api_key = k
        /\ apiKeys[i].is_active
        /\ apiKeys[i].user_id \in DOMAIN users }

\* UPDATE api_keys SET last_used_at = new Date() WHERE id = i
TouchApiKey(i) == [apiKeys EXCEPT ![i].last_used_at = now]

validateApiKeyTry(k, lookupOk, writeOk) ==
    IF ~lookupOk
    THEN [threw |-> TRUE, ret |-> Thrown, apiKeys |-> apiKeys]
    ELSE LET results == ApiKeyLookup(k) IN
         IF results = {}
         THEN [threw |-> FALSE, ret |-> NullCtx, apiKeys |-> apiKeys]
         ELSE LET i == FirstRow(results) IN
              IF writeOk
              THEN [threw |-> FALSE,
                    ret |-> UserContext(apiKeys[i].user_id, users[apiKeys[i].user_id]),
                    apiKeys |-> TouchApiKey(i)]
              ELSE [threw |-> TRUE, ret |-> Thrown, apiKeys |-> apiKeys]

\* catch (error) { console.error(...); throw error; }
ApiKeyCatch(r) == r

validateApiKey(k, lookupOk, writeOk) ==
    ApiKeyCatch(validateApiKeyTry(k, lookupOk, writeOk))

(* ------------------------------ inputs --------------------------------- *)
SessionTokenStrings ==
    { <<>>, <<" ">>, <<"x">>, <<" ", "x">>, <<"x", " ">>, <<"y">>, <<" ", "y">>, <<"z">>, <<"w">> }
SessionTokenValues == { StrVal(s) : s \in SessionTokenStrings } \cup NonStrings
ApiKeyStrings ==
    { <<>>, <<" ">>, <<"k">>, <<" ", "k">>, <<"k", " ">>, <<"m">>, <<"n">>, <<"w">> }

(* --------------------------- direct calls ------------------------------ *)
\* A caller awaits validateSession(v).
CallValidateSession(p, v) ==
    /\ Free(p)
    /\ \E lookupOk \in StoreOutcomes, writeOk \in StoreOutcomes :
         LET r == validateSession(v, lookupOk, writeOk) IN
         /\ sessions' = r.sessions
         /\ inv' = [inv EXCEPT ![p] =
                      [Idle EXCEPT !.pc = "done", !.id = nreq + 1,
                                   !.route = "direct", !.op = "validateSession",
                                   !.arg = v, !.now0 = now, !.ret = r.ret,
                                   !.result = IF r.threw THEN "threw" ELSE "returned"]]
    /\ nreq' = nreq + 1
    /\ UNCHANGED <<now, users, apiKeys, auditLogs, storeFaults>>

\* A caller awaits validateApiKey(k).
AwaitValidateApiKey(p, k) ==
    /\ Vacant(p)
    /\ \E lookupOk \in StoreOutcomes, writeOk \in StoreOutcomes :
         LET r == validateApiKey(k, lookupOk, writeOk) IN
         /\ apiKeys' = r.apiKeys
         /\ inv' = [inv EXCEPT ![p] =
                      [Idle EXCEPT !.pc = "done", !.id = nreq + 1,
                                   !.route = "direct", !.op = "validateApiKey",
                                   !.arg = StrVal(k), !.now0 = now, !.ret = r.ret,
                                   !.result = IF r.threw THEN "threw" ELSE "returned"]]
    /\ nreq' = nreq + 1
    /\ UNCHANGED <<now, users, sessions, auditLogs, storeFaults>>

CallValidateApiKey(p, k) == Free(p) /\ AwaitValidateApiKey(p, k)

\* The clock advances.
Tick ==
    /\ now < MaxTime
    /\ now' = now + 1
    /\ UNCHANGED <<users, sessions, apiKeys, auditLogs, inv, nreq, storeFaults>>


(* ------------------------- token refresh decision ---------------------- *)
\* refreshUserToken: `if (user.token_expiry > expiryBuffer) return;`
RefreshUserTokenNeedsRefreshNoBuffer(expiry, t) == ~(expiry > t)
RefreshUserTokenNeedsRefresh(expiry, t) == ~(expiry > t + RefreshBufferMin)
\* listFiles: `if (now < tokenExpiryWithBuffer) return user.access_token;`
ListNeedsRefreshAlways(expiry, t) == TRUE
ListNeedsRefresh(expiry, t) == ~(t < expiry - RefreshBufferMin)
\* uploadFile, deleteFile, openWorkspaceDoc: `if (user.token_expiry <= now)`
UploadNeedsRefreshStrict(expiry, t) == expiry < t
UploadNeedsRefresh(expiry, t) == expiry <= t
DeleteNeedsRefresh(expiry, t) == expiry <= t
OpenNeedsRefresh(expiry, t) == expiry <= t
\* downloadFile: `if (now >= tokenExpiry)`
DownloadNeedsRefresh(expiry, t) == t >= expiry

NeedsRefresh(op, expiry, t) ==
    CASE op = "refreshUserToken" -> RefreshUserTokenNeedsRefresh(expiry, t)
      [] op = "listFiles" -> ListNeedsRefresh(expiry, t)
      [] op = "uploadFile" -> UploadNeedsRefresh(expiry, t)
      [] op = "downloadFile" -> DownloadNeedsRefresh(expiry, t)
      [] op = "deleteFile" -> DeleteNeedsRefresh(expiry, t)
      [] op = "openWorkspaceDoc" -> OpenNeedsRefresh(expiry, t)

(* --------------------------- token refresh write ----------------------- *)
\* The columns each call site puts in its UPDATE users SET ...; t0 is the `now`
\* the handler read after loading the user, t the time the response arrived.
\* refresh_token = NoToken: the column is not in the SET list.
RefreshUserTokenUpdateStartOnly(resp, t0, t) ==
    [access_token |-> resp.access_token,
     token_expiry |-> t0,
     updated_at |-> t0,
     refresh_token |-> resp.refresh_token]
RefreshUserTokenUpdate(resp, t0, t) ==
    [access_token |-> resp.access_token,
     token_expiry |-> t0 + resp.expires_in,
     updated_at |-> t0,
     refresh_token |-> resp.refresh_token]
ListUpdate(resp, t0, t) ==
    [access_token |-> resp.access_token,
     token_expiry |-> t0 + resp.expires_in,
     updated_at |-> t0,
     refresh_token |-> NoToken]
UploadUpdate(resp, t0, t) ==
    [access_token |-> resp.access_token,
     token_expiry |-> t0 + resp.expires_in,
     updated_at |-> t0,
     refresh_token |-> NoToken]
DownloadUpdate(resp, t0, t) ==
    [access_token |-> resp.access_token,
     token_expiry |-> t0 + resp.expires_in,
     updated_at |-> t0,
     refresh_token |-> NoToken]
\* newExpiry = new Date(); newExpiry.setSeconds(... + expires_in); updated_at: new Date()
DeleteUpdate(resp, t0, t) ==
    [access_token |-> resp.access_token,
     token_expiry |-> t + resp.expires_in,
     updated_at |-> t,
     refresh_token |-> NoToken]
\* expiresIn = data.expires_in || 3600; new Date(Date.now() + expiresIn * 1000)
OpenUpdate(resp, t0, t) ==
    [access_token |-> resp.access_token,
     token_expiry |-> t + (IF resp.expires_in = 0 THEN DefaultExpiresInMin
                           ELSE resp.expires_in),
     updated_at |-> t,
     refresh_token |-> NoToken]

RefreshUpdate(op, resp, t0, t) ==
    CASE op = "refreshUserToken" -> RefreshUserTokenUpdate(resp, t0, t)
      [] op = "listFiles" -> ListUpdate(resp, t0, t)
      [] op = "uploadFile" -> UploadUpdate(resp, t0, t)
      [] op = "downloadFile" -> DownloadUpdate(resp, t0, t)
      [] op = "deleteFile" -> DeleteUpdate(resp, t0, t)
      [] op = "openWorkspaceDoc" -> OpenUpdate(resp, t0, t)

\* db.update(usersTable).set(upd).where(eq(usersTable.id, uid))
UpdateUserTokensKeepsLaterExpiry(uid, upd) ==
    IF uid \in DOMAIN users
    THEN [users EXCEPT ![uid] =
            [@ EXCEPT !.access_token = upd.access_token,
                      !.token_expiry = IF @ > upd.token_expiry THEN @
                                       ELSE upd.token_expiry,
                      !.updated_at = upd.updated_at,
                      !.refresh_token = IF upd.refresh_token = NoToken THEN @
                                        ELSE upd.refresh_token]]
    ELSE users
UpdateUserTokens(uid, upd) ==
    IF uid \in DOMAIN users
    THEN [users EXCEPT ![uid] =
            [@ EXCEPT !.access_token = upd.access_token,
                      !.token_expiry = upd.token_expiry,
                      !.updated_at = upd.updated_at,
                      !.refresh_token = IF upd.refresh_token = NoToken THEN @
                                        ELSE upd.refresh_token]]
    ELSE users

(* ------------------------------ provider ------------------------------- *)
\* The OAuth token endpoint answers request n with a fresh access token, an
\* expires_in (minutes) and, when it rotates, a fresh refresh token.
ExpiresIn == {1, 7}
TokenResponses(n) ==
    { [access_token |-> n, expires_in |-> e, refresh_token |-> r] :
        e \in ExpiresIn, r \in {NoToken, n} }

WORKSPACE_MIME_TYPES ==
    { "application/vnd.google-apps.document", "application/vnd.google-apps.spreadsheet",
      "application/vnd.google-apps.presentation", "application/vnd.google-apps.form",
      "application/vnd.google-apps.drawing", "application/vnd.google-apps.site",
      "application/vnd.google-apps.jam" }

\* downloadFile's workspaceTypes table (its keys)
ExportedMimeTypes ==
    { "application/vnd.google-apps.document", "application/vnd.google-apps.spreadsheet",
      "application/vnd.google-apps.presentation", "application/vnd.google-apps.drawing",
      "application/vnd.google-apps.script" }

\* What the Drive files.get endpoint may answer, by the fields each handler asks for.
MetaStatuses == {200, 403, 404, 500}
MetaMimeTypes == {"application/vnd.google-apps.document", "text/plain"}
MetaOwners == { {"e1"}, {"e2"}, {} }
MetaNames == { "n1", "n2" }
\* A non-success answer has no body the handlers read; the owners field of a
\* file may be absent.
MetaResponses(op) ==
    { [NoMeta EXCEPT !.status = st] : st \in MetaStatuses \ {200} } \cup
    IF op = "deleteFile"
    THEN { [status |-> 200, mimeType |-> "", hasOwners |-> TRUE, owners |-> o,
            trashed |-> tr, name |-> n, size |-> NoSize] :
             o \in MetaOwners, tr \in BOOLEAN, n \in MetaNames }
         \cup
         { [status |-> 200, mimeType |-> "", hasOwners |-> FALSE, owners |-> {},
            trashed |-> tr, name |-> "n1", size |-> NoSize] : tr \in BOOLEAN }
    ELSE { [status |-> 200, mimeType |-> m, hasOwners |-> FALSE, owners |-> {},
            trashed |-> FALSE, name |-> <<"n", "1">>, size |-> NoSize] :
             m \in MetaMimeTypes }

\* String.prototype.endsWith on texts held as character sequences
EndsWith(text, suffix) ==
    /\ Len(text) >= Len(suffix)
    /\ SubSeq(text, Len(text) - Len(suffix) + 1, Len(text)) = suffix

\* downloadFile's workspaceTypes table
workspaceTypes ==
    [ m \in ExportedMimeTypes |->
        CASE m = "application/vnd.google-apps.document" ->
               [exportType |-> "application/vnd.openxmlformats-officedocument.wordprocessingml.document",
                extension |-> <<".", "d", "o", "c", "x">>]
          [] m = "application/vnd.google-apps.spreadsheet" ->
               [exportType |-> "application/vnd.openxmlformats-officedocument.spreadsheetml.sheet",
                extension |-> <<".", "x", "l", "s", "x">>]
          [] m = "application/vnd.google-apps.presentation" ->
               [exportType |-> "application/vnd.openxmlformats-officedocument.presentationml.presentation",
                extension |-> <<".", "p", "p", "t", "x">>]
          [] m = "application/vnd.google-apps.drawing" ->
               [exportType |-> "image/png", extension |-> <<".", "p", "n", "g">>]
          [] m = "application/vnd.google-apps.script" ->
               [exportType |-> "application/vnd.google-apps.script+json",
                extension |-> <<".", "j", "s", "o", "n">>] ]

\* openWorkspaceDoc's WORKSPACE_MIME_TYPES table: the URL segment of each type
WorkspaceTypeSingular(m) ==
    CASE m = "application/vnd.google-apps.document" -> "document"
      [] m = "application/vnd.google-apps.spreadsheet" -> "spreadsheet"
      [] m = "application/vnd.google-apps.presentation" -> "presentation"
      [] m = "application/vnd.google-apps.form" -> "form"
      [] m = "application/vnd.google-apps.drawing" -> "drawing"
      [] m = "application/vnd.google-apps.site" -> "site"
      [] m = "application/vnd.google-apps.jam" -> "jamboard"
WorkspaceType(m) ==
    CASE m = "application/vnd.google-apps.document" -> "document"
      [] m = "application/vnd.google-apps.spreadsheet" -> "spreadsheets"
      [] m = "application/vnd.google-apps.presentation" -> "presentation"
      [] m = "application/vnd.google-apps.form" -> "forms"
      [] m = "application/vnd.google-apps.drawing" -> "drawings"
      [] m = "application/vnd.google-apps.site" -> "sites"
      [] m = "application/vnd.google-apps.jam" -> "jamboard"

\* The files of the user's drive that the download and open calls name: one
\* of every Workspace and exported type, names with and without the mapped
\* extension, ordinary files, and a file whose metadata carries no mimeType.
DriveFiles ==
    [ f_doc    |-> [mimeType |-> "application/vnd.google-apps.document",
                    name |-> <<"a">>],
      f_docx   |-> [mimeType |-> "application/vnd.google-apps.document",
                    name |-> <<"a", ".", "d", "o", "c", "x">>],
      f_olddoc |-> [mimeType |-> "application/vnd.google-apps.document",
                    name |-> <<"a", ".", "d", "o", "c">>],
      f_sheet  |-> [mimeType |-> "application/vnd.google-apps.spreadsheet",
                    name |-> <<"a">>],
      f_slides |-> [mimeType |-> "application/vnd.google-apps.presentation",
                    name |-> <<"a", ".", "p", "p", "t", "x">>],
      f_draw   |-> [mimeType |-> "application/vnd.google-apps.drawing",
                    name |-> <<"a">>],
      f_script |-> [mimeType |-> "application/vnd.google-apps.script",
                    name |-> <<"a">>],
      f_form   |-> [mimeType |-> "application/vnd.google-apps.form",
                    name |-> <<"a">>],
      f_site   |-> [mimeType |-> "application/vnd.google-apps.site",
                    name |-> <<"a">>],
      f_jam    |-> [mimeType |-> "application/vnd.google-apps.jam",
                    name |-> <<"a">>],
      f_txt    |-> [mimeType |-> "text/plain",
                    name |-> <<"a", ".", "t", "x", "t">>],
      f_pdf    |-> [mimeType |-> "application/pdf",
                    name |-> <<"a", ".", "d", "o", "c", "x">>],
      f_bare   |-> [mimeType |-> "", name |-> <<"a">>] ]

\* The size field of a metadata answer: absent, or a number of bytes
MetaSizes == { NoSize, 0 }

\* What files.get answers for a file id: for a file of the drive its metadata
\* (downloadFile also asks for the size) or a failure; for any other id
\* whatever the endpoint may answer.
FileResponses(op, fileId) ==
    IF fileId \in DOMAIN DriveFiles
    THEN { [NoMeta EXCEPT !.status = st, !.name = <<>>] : st \in MetaStatuses \ {200} }
         \cup
         { [NoMeta EXCEPT !.status = 200, !.mimeType = DriveFiles[fileId].mimeType,
                          !.name = DriveFiles[fileId].name, !.size = sz] :
             sz \in IF op = "downloadFile" THEN MetaSizes ELSE { NoSize } }
    ELSE MetaResponses(op)

(* ------------------------------ handlers ------------------------------- *)
Handlers ==
    { "listFiles", "uploadFile", "downloadFile", "deleteFile", "openWorkspaceDoc" }

\* The state of a handler that has just been called with a user context.
Invoke(id, route, op, ctx, fileId) ==
    [Idle EXCEPT !.pc = IF op = "createApiKey" THEN "insertKey" ELSE "load",
                 !.id = id, !.route = route, !.op = op,
                 !.ctx = ctx, !.fileId = fileId]

\* Where a handler continues once it holds an access token.
AfterToken(op) ==
    CASE op = "refreshUserToken" -> "done"
      [] op = "listFiles" -> "list"
      [] op = "uploadFile" -> "upload"
      [] op \in {"downloadFile", "deleteFile", "openWorkspaceDoc"} -> "meta"

\* `throw`: deleteFile's catch block first writes its failure audit entry; the
\* other handlers log to the console and rethrow.
Throw(r, e) ==
    IF r.op = "deleteFile"
    THEN [r EXCEPT !.pc = "failaudit", !.err = e]
    ELSE [r EXCEPT !.pc = "done", !.result = e]

Return(r, res) == [r EXCEPT !.pc = "done", !.result = res]

\* The metadata column of an audit entry: the operation tag and error message
\* deleteFile stores, the input filters listFiles stores.
Metadata(operation, error, filters) ==
    [operation |-> operation, error |-> error, filters |-> filters]

AuditRow(uid, action, fileId, named, metadata) ==
    [user_id |-> uid, action |-> action, file_id |-> fileId,
     file_name |-> named, metadata |-> metadata]

\* The inputs a handler is called with: listFiles takes the filters.
ListInputs == { NoInput, [folderId |-> "d1", query |-> "q", pageSize |-> 10] }
InputsOf(op) == IF op = "listFiles" THEN ListInputs ELSE { NoInput }

\* A test or another module calls the handler with a context.
CallerContexts ==
    { UserContext(1, users[1]),
      [kind |-> "ctx", userId |-> 999, googleId |-> "g999", email |-> "e999"] }

CallHandler(p, op, ctx) ==
    /\ Free(p)
    /\ \E input \in InputsOf(op) :
         inv' = [inv EXCEPT ![p] =
                   [Invoke(nreq + 1, "direct", op, ctx, "f1") EXCEPT !.input = input]]
    /\ nreq' = nreq + 1
    /\ UNCHANGED <<now, users, sessions, apiKeys, auditLogs, storeFaults>>

\* response.ok of the answer to the call made last
Reply(r, ok) == [r EXCEPT !.replies = Append(@, ok)]

\* `if (!refreshResponse.ok) throw new Error('Failed to refresh access token')`
RefreshFailureIgnored(r) == [r EXCEPT !.pc = AfterToken(r.op)]
RefreshFailure(r) == Throw(r, "TokenRefreshFailed")

\* SELECT * FROM users WHERE id = ctx.userId; now = new Date(); the refresh decision
LoadUser(p) ==
    /\ inv[p].pc = "load"
    /\ \E dbOk \in StoreOutcomes :
         LET r == inv[p]
             uid == r.ctx.userId
         IN inv' = [inv EXCEPT ![p] =
              IF ~dbOk THEN Throw(r, "StorageError")
              ELSE IF uid \notin DOMAIN users THEN Throw(r, "UserNotFound")
              ELSE LET u == users[uid]
                       got == [r EXCEPT !.now0 = now, !.expiry0 = u.token_expiry,
                                        !.access0 = u.access_token,
                                        !.access = u.access_token,
                                        !.rtok = u.refresh_token]
                   IN IF NeedsRefresh(r.op, u.token_expiry, now)
                      THEN [got EXCEPT !.pc = "refresh"]
                      ELSE IF AfterToken(r.op) = "done" THEN Return(got, "ok")
                      ELSE [got EXCEPT !.pc = AfterToken(r.op)]]
    /\ UNCHANGED <<now, users, sessions, apiKeys, auditLogs, nreq, storeFaults>>

\* POST https://oauth2.googleapis.com/token with grant_type=refresh_token
RefreshFetch(p) ==
    /\ inv[p].pc = "refresh"
    /\ LET r == [inv[p] EXCEPT !.calls =
                   Append(@, [kind |-> "token", bearer |-> NoToken])]
       IN \/ inv' = [inv EXCEPT ![p] =
                         RefreshFailure(Reply([r EXCEPT !.refresh = "failed"], FALSE))]
          \/ \E resp \in TokenResponses(r.id) :
               inv' = [inv EXCEPT ![p] =
                         [Reply(r, TRUE) EXCEPT !.pc = "persist",
                                   !.refresh = "ok",
                                   !.rot = resp.refresh_token,
                                   !.access = resp.access_token,
                                   !.expiresIn = resp.expires_in,
                                   !.upd = RefreshUpdate(r.op, resp, r.now0, now)]]
    /\ UNCHANGED <<now, users, sessions, apiKeys, auditLogs, nreq, storeFaults>>

\* UPDATE users SET access_token, token_expiry, updated_at[, refresh_token]
PersistTokens(p) ==
    /\ inv[p].pc = "persist"
    /\ LET r == inv[p] IN
       \/ /\ storeFaults
          /\ inv' = [inv EXCEPT ![p] = Throw(r, "StorageError")]
          /\ users' = users
       \/ /\ users' = UpdateUserTokens(r.ctx.userId, r.upd)
          /\ inv' = [inv EXCEPT ![p] =
                       IF AfterToken(r.op) = "done" THEN Return(r, "ok")
                       ELSE [r EXCEPT !.pc = AfterToken(r.op)]]
    /\ UNCHANGED <<now, sessions, apiKeys, auditLogs, nreq, storeFaults>>

DriveCall(r, kind) == [r EXCEPT !.calls = Append(@, [kind |-> kind, bearer |-> r.access])]

\* Array.prototype.join
RECURSIVE JoinWith(_, _)
JoinWith(parts, separator) ==
    IF parts = <<>> THEN ""
    ELSE IF Len(parts) = 1 THEN parts[1]
    ELSE parts[1] \o separator \o JoinWith(Tail(parts), separator)

\* buildGoogleDriveQuery: the parts pushed for a truthy folderId and a truthy
\* query (the empty string is falsy, like an absent field), then the trashed filter
buildGoogleDriveQueryQueryFirst(input) ==
    JoinWith((IF input.query # ""
              THEN << "name contains '" \o input.query \o "'" >> ELSE <<>>)
             \o (IF input.folderId # ""
                 THEN << "'" \o input.folderId \o "' in parents" >> ELSE <<>>)
             \o << "trashed = false" >>,
             " and ")
buildGoogleDriveQuery(input) ==
    JoinWith((IF input.folderId # ""
              THEN << "'" \o input.folderId \o "' in parents" >> ELSE <<>>)
             \o (IF input.query # ""
                 THEN << "name contains '" \o input.query \o "'" >> ELSE <<>>)
             \o << "trashed = false" >>,
             " and ")

\* The URLSearchParams of the list request: q, pageSize, fields, orderBy, and
\* pageToken appended for a truthy page token
ListParams(input, pageToken) ==
    << << "q", buildGoogleDriveQuery(input) >>,
       << "pageSize", Join(Decimal(input.pageSize)) >>,
       << "fields", "nextPageToken,files(id,name,mimeType,size,createdTime,modifiedTime,webViewLink,webContentLink,parents,trashed,kind)" >>,
       << "orderBy", "modifiedTime desc" >> >>
    \o (IF pageToken # "" THEN << << "pageToken", pageToken >> >> ELSE <<>>)

\* `if (!driveResponse.ok) throw new Error('Google Drive API request failed: ...')`
ListFailureRetries(r) == [r EXCEPT !.pc = "list"]
ListFailure(r) == Throw(r, "DriveApiError")

\* GET /drive/v3/files?q=...
DriveList(p) ==
    /\ inv[p].pc = "list"
    /\ LET r == [DriveCall(inv[p], "list") EXCEPT
                   !.params = ListParams(inv[p].input, inv[p].pageToken)] IN
       \/ inv' = [inv EXCEPT ![p] = ListFailure(Reply(r, FALSE))]
       \/ inv' = [inv EXCEPT ![p] = [Reply(r, TRUE) EXCEPT !.pc = "audit"]]
    /\ UNCHANGED <<now, users, sessions, apiKeys, auditLogs, nreq, storeFaults>>

\* POST /upload/drive/v3/files?uploadType=multipart
DriveUpload(p) ==
    /\ inv[p].pc = "upload"
    /\ LET r == DriveCall(inv[p], "upload") IN
       \/ inv' = [inv EXCEPT ![p] = Throw(Reply(r, FALSE), "UploadFailed")]
       \/ inv' = [inv EXCEPT ![p] = [Reply(r, TRUE) EXCEPT !.pc = "audit"]]
    /\ UNCHANGED <<now, users, sessions, apiKeys, auditLogs, nreq, storeFaults>>

\* What each handler does with the answer to GET /drive/v3/files/{id}?fields=...
\* downloadFile, step 4: `if (workspaceTypes[fileMetadata.mimeType])` chooses
\* the export endpoint, the export type and the name with the extension
\* appended if not present; otherwise alt=media and the metadata's own values.
ChooseDownloadAlwaysAppends(r, m) ==
    IF m.mimeType \in DOMAIN workspaceTypes
    THEN LET exportInfo == workspaceTypes[m.mimeType] IN
         [r EXCEPT !.downloadUrl = [endpoint |-> "export",
                                    mimeType |-> exportInfo.exportType],
                   !.finalMimeType = exportInfo.exportType,
                   !.finalName = m.name \o exportInfo.extension]
    ELSE [r EXCEPT !.downloadUrl = [endpoint |-> "media", mimeType |-> ""],
                   !.finalMimeType = m.mimeType,
                   !.finalName = m.name]
ChooseDownload(r, m) ==
    IF m.mimeType \in DOMAIN workspaceTypes
    THEN LET exportInfo == workspaceTypes[m.mimeType] IN
         [r EXCEPT !.downloadUrl = [endpoint |-> "export",
                                    mimeType |-> exportInfo.exportType],
                   !.finalMimeType = exportInfo.exportType,
                   !.finalName = IF EndsWith(m.name, exportInfo.extension)
                                 THEN m.name
                                 ELSE m.name \o exportInfo.extension]
    ELSE [r EXCEPT !.downloadUrl = [endpoint |-> "media", mimeType |-> ""],
                   !.finalMimeType = m.mimeType,
                   !.finalName = m.name]

MetaDownloadContinues(r, m) ==
    IF m.status = 404
    THEN Throw([r EXCEPT !.meta = m], "FileNotFound")
    ELSE ChooseDownload([r EXCEPT !.pc = "content", !.meta = m], m)
MetaDownload(r, m) ==
    IF m.status # 200
    THEN Throw([r EXCEPT !.meta = m],
               IF m.status = 404 THEN "FileNotFound" ELSE "MetadataError")
    ELSE ChooseDownload([r EXCEPT !.pc = "content", !.meta = m], m)

\* fileMetadata.owners?.some(owner => owner.emailAddress === userContext.email)
OwnersSomeOrAbsent(m, email) == ~m.hasOwners \/ email \in m.owners
OwnersSome(m, email) == m.hasOwners /\ email \in m.owners

\* { success: false, message: 'File is already in trash' }
AlreadyTrashed(r) ==
    Return([r EXCEPT !.message = "File is already in trash"], "already_trashed")

MetaDeleteTrashedFirst(r, m) ==
    IF m.status # 200
    THEN Throw(r, IF m.status = 404 THEN "FileNotFound" ELSE "MetadataError")
    ELSE IF m.trashed THEN AlreadyTrashed([r EXCEPT !.meta = m])
    ELSE IF ~OwnersSome(m, r.ctx.email)
    THEN Throw([r EXCEPT !.meta = m], "PermissionDenied")
    ELSE [r EXCEPT !.pc = "delete", !.meta = m]
MetaDeleteIgnoresTrashed(r, m) ==
    IF m.status # 200
    THEN Throw(r, IF m.status = 404 THEN "FileNotFound" ELSE "MetadataError")
    ELSE IF ~OwnersSome(m, r.ctx.email)
    THEN Throw([r EXCEPT !.meta = m], "PermissionDenied")
    ELSE [r EXCEPT !.pc = "delete", !.meta = m]
MetaDelete(r, m) ==
    IF m.status # 200
    THEN Throw(r, IF m.status = 404 THEN "FileNotFound" ELSE "MetadataError")
    ELSE IF ~OwnersSome(m, r.ctx.email)
    THEN Throw([r EXCEPT !.meta = m], "PermissionDenied")
    ELSE IF m.trashed THEN AlreadyTrashed([r EXCEPT !.meta = m])
    ELSE [r EXCEPT !.pc = "delete", !.meta = m]

\* `https://docs.google.com/${workspaceType}/d/${input.fileId}/edit` and /view
DocUrl(workspaceType, fileId, mode) ==
    "https://docs.google.com/" \o workspaceType \o "/d/" \o fileId \o "/" \o mode

MetaOpen(r, m) ==
    IF m.status # 200
    THEN Throw([r EXCEPT !.meta = m],
               CASE m.status = 404 -> "FileNotFound"
                 [] m.status = 403 -> "PermissionDenied"
                 [] OTHER -> "MetadataError")
    ELSE IF m.mimeType \notin WORKSPACE_MIME_TYPES
    THEN Throw([r EXCEPT !.meta = m], "NotWorkspaceDocument")
    ELSE [r EXCEPT !.pc = "audit", !.meta = m,
                   !.editUrl = DocUrl(WorkspaceType(m.mimeType), r.fileId, "edit"),
                   !.viewUrl = DocUrl(WorkspaceType(m.mimeType), r.fileId, "view")]

DriveMeta(p) ==
    /\ inv[p].pc = "meta"
    /\ LET called == DriveCall(inv[p], "meta") IN
       \E m \in FileResponses(called.op, called.fileId) :
         LET r == Reply(called, m.status = 200) IN
         inv' = [inv EXCEPT ![p] =
                   CASE r.op = "downloadFile" -> MetaDownload(r, m)
                     [] r.op = "deleteFile" -> MetaDelete(r, m)
                     [] r.op = "openWorkspaceDoc" -> MetaOpen(r, m)]
    /\ UNCHANGED <<now, users, sessions, apiKeys, auditLogs, nreq, storeFaults>>

\* GET .../export?mimeType=... for an exported type, GET ...?alt=media otherwise
DriveContent(p) ==
    /\ inv[p].pc = "content"
    /\ LET r == DriveCall(inv[p], inv[p].downloadUrl.endpoint) IN
       \/ inv' = [inv EXCEPT ![p] = Throw(Reply(r, FALSE), "DownloadFailed")]
       \/ inv' = [inv EXCEPT ![p] = [Reply(r, TRUE) EXCEPT !.pc = "audit"]]
    /\ UNCHANGED <<now, users, sessions, apiKeys, auditLogs, nreq, storeFaults>>

\* DELETE /drive/v3/files/{id}
DriveDelete(p) ==
    /\ inv[p].pc = "delete"
    /\ LET r == DriveCall(inv[p], "DELETE") IN
       \/ inv' = [inv EXCEPT ![p] = Throw(Reply(r, FALSE), "DeleteFailed")]
       \/ inv' = [inv EXCEPT ![p] = [Reply(r, TRUE) EXCEPT !.pc = "audit"]]
    /\ UNCHANGED <<now, users, sessions, apiKeys, auditLogs, nreq, storeFaults>>

AuditAction(op) ==
    CASE op = "listFiles" -> "list"
      [] op = "uploadFile" -> "upload"
      [] op = "downloadFile" -> "download"
      [] op = "deleteFile" -> "delete"
      [] op = "openWorkspaceDoc" -> "open"

\* The metadata of the entry a handler writes after its provider work.
AuditMetadataNoFilters(r) ==
    Metadata(IF r.op = "deleteFile" THEN "move_to_trash" ELSE "", "", NoInput)
AuditMetadata(r) ==
    CASE r.op = "listFiles" -> Metadata("", "", r.input)
      [] r.op = "deleteFile" -> Metadata("move_to_trash", "", NoInput)
      [] OTHER -> Metadata("", "", NoInput)

\* message: `File "${fileMetadata.name}" deleted successfully`
DeletedMessage(name) == "File \"" \o name \o "\" deleted successfully"

\* What the handler returns once its audit entry is stored.
Success(r) ==
    Return([r EXCEPT !.audit = "written",
                     !.message = IF r.op = "deleteFile"
                                 THEN DeletedMessage(r.meta.name) ELSE ""],
           "ok")

\* The audit insert rejected: listFiles' logAuditOperation catches and logs,
\* the other handlers have the insert inside their outer try, whose catch
\* rethrows.
AuditFailure(r) ==
    IF r.op = "listFiles"
    THEN Return([r EXCEPT !.audit = "failed"], "ok")
    ELSE Throw([r EXCEPT !.audit = "failed"], "StorageError")

\* INSERT INTO audit_logs after the provider work
WriteAudit(p) ==
    /\ inv[p].pc = "audit"
    /\ LET r == inv[p] IN
       \/ /\ storeFaults
          /\ auditLogs' = auditLogs
          /\ inv' = [inv EXCEPT ![p] = AuditFailure(r)]
       \/ /\ r.ctx.userId \in DOMAIN users
          /\ auditLogs' = Append(auditLogs,
                AuditRow(r.ctx.userId, AuditAction(r.op),
                         IF r.op = "listFiles" THEN NoFile ELSE r.fileId,
                         r.op # "listFiles", AuditMetadata(r)))
          /\ inv' = [inv EXCEPT ![p] = Success(r)]
    /\ UNCHANGED <<now, users, sessions, apiKeys, nreq, storeFaults>>

\* deleteFile's catch block: the entry it tries to write
FailureAuditRow(r) ==
    AuditRow(r.ctx.userId, "delete", r.fileId, FALSE,
             Metadata("delete_failed", r.err, NoInput))

\* catch (auditError) { console.error(...) } and then `throw error`
FailureAuditCatchRethrow(r) == Return([r EXCEPT !.failAudit = "failed"], "StorageError")
FailureAuditCatch(r) == Return([r EXCEPT !.failAudit = "failed"], r.err)

\* deleteFile's catch block: a best-effort delete_failed entry, then rethrow;
\* the insert is rejected when the store fails or the user row is missing.
WriteFailureAudit(p) ==
    /\ inv[p].pc = "failaudit"
    /\ LET r == inv[p] IN
       \/ /\ storeFaults \/ r.ctx.userId \notin DOMAIN users
          /\ auditLogs' = auditLogs
          /\ inv' = [inv EXCEPT ![p] = FailureAuditCatch(r)]
       \/ /\ r.ctx.userId \in DOMAIN users
          /\ auditLogs' = Append(auditLogs, FailureAuditRow(r))
          /\ inv' = [inv EXCEPT ![p] = Return([r EXCEPT !.failAudit = "written"], r.err)]
    /\ UNCHANGED <<now, users, sessions, apiKeys, nreq, storeFaults>>


(* ---------------------------- createApiKey ----------------------------- *)
\* `gd_` + 32 random bytes in hex: some key of the key space
KeySpace == { <<"g", "1">>, <<"g", "2">> }

\* api_key: text('api_key').notNull().unique()
ApiKeyTakenNever(key) == FALSE
ApiKeyTaken(key) == \E i \in DOMAIN apiKeys : apiKeys[i].api_key = key

\* INSERT INTO api_keys (user_id, key_name, api_key, is_active) ... RETURNING;
\* the call returns the stored api_key
InsertApiKey(p) ==
    /\ inv[p].pc = "insertKey"
    /\ LET r == inv[p] IN
       \/ /\ storeFaults
          /\ apiKeys' = apiKeys
          /\ inv' = [inv EXCEPT ![p] = Throw(r, "StorageError")]
       \/ \E key \in KeySpace :
            IF \/ ApiKeyTaken(key)
               \/ r.ctx.userId \notin DOMAIN users
            THEN /\ apiKeys' = apiKeys
                 /\ inv' = [inv EXCEPT ![p] = Throw(r, "StorageError")]
            ELSE /\ apiKeys' = Append(apiKeys,
                        [user_id |-> r.ctx.userId, api_key |-> key,
                         is_active |-> TRUE, last_used_at |-> NoTime])
                 /\ inv' = [inv EXCEPT ![p] = Return([r EXCEPT !.out = key], "ok")]
    /\ UNCHANGED <<now, users, sessions, auditLogs, nreq, storeFaults>>

\* A caller with a user context awaits createApiKey(input, userContext).
KeyOwners == { UserContext(1, users[1]), UserContext(2, users[2]) }

CallCreateApiKey(p, ctx) ==
    /\ Vacant(p)
    /\ nreq < MaxKeyCalls
    /\ inv' = [inv EXCEPT ![p] = Invoke(nreq + 1, "direct", "createApiKey", ctx, NoFile)]
    /\ nreq' = nreq + 1
    /\ UNCHANGED <<now, users, sessions, apiKeys, auditLogs, storeFaults>>

\* A caller presents a key it was given, or the seeded key k, to validateApiKey.
PresentedKeys == KeySpace \cup { <<"k">> }

CallValidateCreatedKey(p, k) ==
    /\ nreq < MaxKeyCalls
    /\ AwaitValidateApiKey(p, k)

(* -------------------------- handleAuthCallback ------------------------- *)
\* the letters that occur in authorization codes and in 'unknown'
Letters == { "a", "b", "k", "n", "o", "u", "w" }

\* The authorization codes a callback may carry
AuthCodes == { <<"a">>, <<"a", "_", "1">>, <<"b", "-">> }
CodeIndex(code) ==
    CASE code = <<"a">> -> 1 [] code = <<"a", "_", "1">> -> 2 [] code = <<"b", "-">> -> 3

\* `access_token_${code}_${Date.now()}`: the text after the prefix, and the
\* number that stands for the whole token in the users table
TokenText(code, t) == code \o <<"_">> \o Decimal(t)
TokenOf(code, t) == 100 * CodeIndex(code) + t

\* accessToken.match(/access_token_(.+?)_\d+/): the shortest non-empty text
\* that an underscore and a digit follow; 'unknown' without a match
ExtractCode(text) ==
    LET cuts == { n \in 1..(Len(text) - 2) :
                    text[n + 1] = "_" /\ IsDigit(text[n + 2]) }
    IN IF cuts = {} THEN << "u", "n", "k", "n", "o", "w", "n" >>
       ELSE SubSeq(text, 1, CHOOSE n \in cuts : \A m \in cuts : n <= m)

\* code.replace(/[^a-zA-Z0-9]/g, '')
IsAlphaNumeric(c) == IsDigit(c) \/ c \in Letters
Sanitize(s) == SelectSeq(s, IsAlphaNumeric)

\* fetchGoogleUserProfile
fetchGoogleUserProfile(text) ==
    LET userId == Join(Sanitize(ExtractCode(text)))
    IN [id |-> "google_user_" \o userId,
        email |-> "user_" \o userId \o "@example.com"]

\* `jwt_token_user_${userId}_${Date.now()}`: the text after the prefix
generateJWT(uid, t) == << "j" >> \o Decimal(uid) \o << "_" >> \o Decimal(t)

\* A client awaits handleAuthCallback({ code }).
CallAuthCallback(p, code) ==
    /\ Free(p)
    /\ inv' = [inv EXCEPT ![p] =
                 [Idle EXCEPT !.pc = "exchange", !.id = nreq + 1, !.route = "direct",
                              !.op = "handleAuthCallback", !.arg = StrVal(code),
                              !.now0 = now, !.start = now]]
    /\ nreq' = nreq + 1
    /\ UNCHANGED <<now, users, sessions, apiKeys, auditLogs, storeFaults>>

\* exchangeCodeForTokens: a 100 ms timer, then the tokens stamped with Date.now()
ExchangeCode(p) ==
    /\ inv[p].pc = "exchange"
    /\ now > inv[p].now0
    /\ LET r == inv[p] IN
       inv' = [inv EXCEPT ![p] =
                 [r EXCEPT !.pc = "profile", !.now0 = now,
                           !.tokenText = TokenText(r.arg.str, now),
                           !.access = TokenOf(r.arg.str, now),
                           !.rtok = TokenOf(r.arg.str, now)]]
    /\ UNCHANGED <<now, users, sessions, apiKeys, auditLogs, nreq, storeFaults>>

\* fetchGoogleUserProfile: a 100 ms timer, then the profile; tokenExpiry =
\* Date.now() + expires_in; then the SELECT by google_id is sent
FetchProfile(p) ==
    /\ inv[p].pc = "profile"
    /\ now > inv[p].now0
    /\ LET r == inv[p] IN
       inv' = [inv EXCEPT ![p] =
                 [r EXCEPT !.pc = "findUser", !.now0 = now,
                           !.profile = fetchGoogleUserProfile(r.tokenText),
                           !.upd = [access_token |-> r.access,
                                    refresh_token |-> r.rtok,
                                    token_expiry |-> now + AuthExpiresInMin,
                                    updated_at |-> 0]]]
    /\ UNCHANGED <<now, users, sessions, apiKeys, auditLogs, nreq, storeFaults>>

\* SELECT * FROM users WHERE google_id = userProfile.id; with a row found the
\* UPDATE is built at once, its updated_at: new Date() read off the clock
UsersWithGoogleId(gid) == { u \in DOMAIN users : users[u].google_id = gid }

FindUser(p) ==
    /\ inv[p].pc = "findUser"
    /\ \E dbOk \in StoreOutcomes :
         LET r == inv[p]
             found == UsersWithGoogleId(r.profile.id)
         IN inv' = [inv EXCEPT ![p] =
              IF ~dbOk THEN Throw(r, "StorageError")
              ELSE [r EXCEPT !.pc = IF found # {} THEN "updateUser" ELSE "insertUser",
                             !.upd.updated_at = now]]
    /\ UNCHANGED <<now, users, sessions, apiKeys, auditLogs, nreq, storeFaults>>

\* UPDATE users SET email, name, access_token, refresh_token, token_expiry,
\* updated_at = new Date() WHERE google_id = userProfile.id RETURNING
UpdateUserLeavesTokens(gid, prof, upd, t) ==
    [u \in DOMAIN users |->
        IF users[u].google_id = gid
        THEN [users[u] EXCEPT !.email = prof.email, !.updated_at = t]
        ELSE users[u]]
UpdateUserByGoogleId(gid, prof, upd, t) ==
    [u \in DOMAIN users |->
        IF users[u].google_id = gid
        THEN [users[u] EXCEPT !.email = prof.email,
                              !.access_token = upd.access_token,
                              !.refresh_token = upd.refresh_token,
                              !.token_expiry = upd.token_expiry,
                              !.updated_at = t]
        ELSE users[u]]

\* What follows the upsert before the next await: jwtToken = generateJWT(user.id)
\* and sessionExpiry = Date.now() + 24 h, both read off the clock at time t
UserStored(r, uid, t) ==
    [r EXCEPT !.pc = "insertSession", !.uid = uid, !.now0 = t,
              !.out = generateJWT(uid, t)]

UpdateUser(p) ==
    /\ inv[p].pc = "updateUser"
    /\ LET r == inv[p]
           found == UsersWithGoogleId(r.profile.id)
       IN \/ /\ storeFaults \/ found = {}
             /\ users' = users
             /\ inv' = [inv EXCEPT ![p] = Throw(r, "StorageError")]
          \/ /\ found # {}
             /\ users' = UpdateUserByGoogleId(r.profile.id, r.profile, r.upd,
                                               r.upd.updated_at)
             /\ inv' = [inv EXCEPT ![p] = UserStored(r, FirstRow(found), now)]
    /\ UNCHANGED <<now, sessions, apiKeys, auditLogs, nreq, storeFaults>>

\* google_id: text('google_id').notNull().unique()
GoogleIdTaken(gid) == UsersWithGoogleId(gid) # {}

\* INSERT INTO users (google_id, email, name, access_token, refresh_token,
\* token_expiry) RETURNING; created_at and updated_at default to now()
InsertUser(p) ==
    /\ inv[p].pc = "insertUser"
    /\ LET r == inv[p] IN
       \/ /\ storeFaults \/ GoogleIdTaken(r.profile.id)
          /\ users' = users
          /\ inv' = [inv EXCEPT ![p] = Throw(r, "StorageError")]
       \/ /\ ~GoogleIdTaken(r.profile.id)
          /\ users' = Append(users,
                 [google_id |-> r.profile.id, email |-> r.profile.email,
                  access_token |-> r.upd.access_token,
                  refresh_token |-> r.upd.refresh_token,
                  token_expiry |-> r.upd.token_expiry, updated_at |-> now])
          /\ inv' = [inv EXCEPT ![p] = UserStored(r, Len(users) + 1, now)]
    /\ UNCHANGED <<now, sessions, apiKeys, auditLogs, nreq, storeFaults>>

\* session_token: text('session_token').notNull().unique()
SessionTokenTaken(tok) == \E i \in DOMAIN sessions : sessions[i].session_token = tok

\* The session row handleAuthCallback inserts; is_active defaults to true
NewSessionInactive(uid, tok, t) ==
    [user_id |-> uid, session_token |-> tok, expires_at |-> t + SessionTtlMin,
     is_active |-> FALSE]
NewSession(uid, tok, t) ==
    [user_id |-> uid, session_token |-> tok, expires_at |-> t + SessionTtlMin,
     is_active |-> TRUE]

\* INSERT INTO sessions (user_id, session_token, expires_at); then the return of
\* the user row and the session token
InsertSession(p) ==
    /\ inv[p].pc = "insertSession"
    /\ LET r == inv[p] IN
       \/ /\ storeFaults \/ SessionTokenTaken(r.out)
          /\ sessions' = sessions
          /\ inv' = [inv EXCEPT ![p] = Throw(r, "StorageError")]
       \/ /\ ~SessionTokenTaken(r.out)
          /\ sessions' = Append(sessions, NewSession(r.uid, r.out, r.now0))
          /\ inv' = [inv EXCEPT ![p] =
                       Return([r EXCEPT !.ret = UserContext(r.uid, users[r.uid])], "ok")]
    /\ UNCHANGED <<now, users, apiKeys, auditLogs, nreq, storeFaults>>

\* The clock advances while a timer of a callback is pending.
TimerTick ==
    /\ \E p \in Procs : inv[p].pc \in {"exchange", "profile"} /\ now <= inv[p].now0
    /\ now' = now + 1
    /\ UNCHANGED <<users, sessions, apiKeys, auditLogs, inv, nreq, storeFaults>>

\* A client presents a stored session token to validateSession.
StoredSessionTokens == { sessions[i].session_token : i \in DOMAIN sessions }

(* ------------------------------- router -------------------------------- *)
\* protectedProcedure routes (requireAuth) and apiKeyProcedure routes (requireApiKey)
SessionRoutes ==
    { "files.list", "files.upload", "files.download", "files.delete",
      "files.openWorkspaceDoc", "auth.createApiKey" }
ApiRoutes == { "api.listFiles", "api.uploadFile", "api.downloadFile", "api.deleteFile" }

RouteHandler(route) ==
    CASE route \in {"files.list", "api.listFiles"} -> "listFiles"
      [] route \in {"files.upload", "api.uploadFile"} -> "uploadFile"
      [] route \in {"files.download", "api.downloadFile"} -> "downloadFile"
      [] route \in {"files.delete", "api.deleteFile"} -> "deleteFile"
      [] route = "files.openWorkspaceDoc" -> "openWorkspaceDoc"
      [] route = "auth.createApiKey" -> "createApiKey"

\* A request header: absent, or a scheme word and the text after "<scheme> ".
\* The x-api-key header has no scheme.
NoHeader == [present |-> FALSE, scheme |-> "", value |-> <<>>]
AuthorizationHeaders ==
    { NoHeader, [present |-> TRUE, scheme |-> "Basic", value |-> <<"y">>] }
      \cup { [present |-> TRUE, scheme |-> "Bearer", value |-> t] :
               t \in { <<"x">>, <<"y">>, <<"z">>, <<"w">> } }
ApiKeyHeaders ==
    { NoHeader }
      \cup { [present |-> TRUE, scheme |-> "", value |-> k] :
               k \in { <<>>, <<"k">>, <<"m">>, <<"n">>, <<"w">> } }

\* `if (!userContext) throw new TRPCError({ code: 'UNAUTHORIZED' })`, in
\* requireAuth and in requireApiKey
AuthorizedAlways(ret) == TRUE
SessionAuthorized(ret) == ret.kind = "ctx"
ApiKeyAuthorized(ret) == ret.kind = "ctx"

\* The rejection of a call by a middleware, before any handler runs.
Reject(id, route, hdr, ret, code) ==
    [Idle EXCEPT !.pc = "done", !.id = id, !.route = route,
                 !.arg = StrVal(hdr.value), !.ret = ret, !.result = code]

\* requireAuth, then the route's handler called with ctx.user
SessionRequest(p, route, hdr) ==
    /\ Free(p)
    /\ nreq < MaxRouted
    /\ IF ~hdr.present \/ hdr.scheme # "Bearer"
       THEN /\ sessions' = sessions
            /\ inv' = [inv EXCEPT ![p] =
                         Reject(nreq + 1, route, hdr, NullCtx, "UNAUTHORIZED")]
       ELSE \E lookupOk \in StoreOutcomes, writeOk \in StoreOutcomes :
              LET r == validateSession(StrVal(hdr.value), lookupOk, writeOk) IN
              /\ sessions' = r.sessions
              /\ inv' = [inv EXCEPT ![p] =
                   IF r.threw
                   THEN Reject(nreq + 1, route, hdr, r.ret, "INTERNAL_SERVER_ERROR")
                   ELSE IF ~SessionAuthorized(r.ret)
                   THEN Reject(nreq + 1, route, hdr, r.ret, "UNAUTHORIZED")
                   ELSE [Invoke(nreq + 1, route, RouteHandler(route), r.ret, "f1")
                           EXCEPT !.arg = StrVal(hdr.value), !.ret = r.ret]]
    /\ nreq' = nreq + 1
    /\ UNCHANGED <<now, users, apiKeys, auditLogs, storeFaults>>

\* requireApiKey, then the route's handler called with ctx.user
ApiKeyRequest(p, route, hdr) ==
    /\ Free(p)
    /\ nreq < MaxRouted
    /\ IF ~hdr.present \/ hdr.value = <<>>
       THEN /\ apiKeys' = apiKeys
            /\ inv' = [inv EXCEPT ![p] =
                         Reject(nreq + 1, route, hdr, NullCtx, "UNAUTHORIZED")]
       ELSE \E lookupOk \in StoreOutcomes, writeOk \in StoreOutcomes :
              LET r == validateApiKey(hdr.value, lookupOk, writeOk) IN
              /\ apiKeys' = r.apiKeys
              /\ inv' = [inv EXCEPT ![p] =
                   IF r.threw
                   THEN Reject(nreq + 1, route, hdr, r.ret, "INTERNAL_SERVER_ERROR")
                   ELSE IF ~ApiKeyAuthorized(r.ret)
                   THEN Reject(nreq + 1, route, hdr, r.ret, "UNAUTHORIZED")
                   ELSE [Invoke(nreq + 1, route, RouteHandler(route), r.ret, "f1")
                           EXCEPT !.arg = StrVal(hdr.value), !.ret = r.ret]]
    /\ nreq' = nreq + 1
    /\ UNCHANGED <<now, users, sessions, auditLogs, storeFaults>>

(* ---------------------------- specification ---------------------------- *)
Init ==
    /\ now = 0
    /\ \E e \in ExpirySeeds :
         users = << SeedUser("g1", "e1", e), SeedUser("g2", "e2", 100) >>
    /\ sessions = SeedSessions
    /\ apiKeys = SeedApiKeys
    /\ auditLogs = <<>>
    /\ inv = [p \in Procs |-> Idle]
    /\ nreq = 0
    /\ storeFaults = FALSE

\* The same system on a store that may fail any statement.
InitStoreFaults ==
    /\ now = 0
    /\ \E e \in ExpirySeeds :
         users = << SeedUser("g1", "e1", e), SeedUser("g2", "e2", 100) >>
    /\ sessions = SeedSessions
    /\ apiKeys = SeedApiKeys
    /\ auditLogs = <<>>
    /\ inv = [p \in Procs |-> Idle]
    /\ nreq = 0
    /\ storeFaults = TRUE

\* validateSession and validateApiKey called one at a time, as their tests do;
\* the slots keep the last two calls.
NextSlot == (nreq % 2) + 1

NextValidation ==
    \/ Tick
    \/ \E v \in SessionTokenValues : CallValidateSession(NextSlot, v)
    \/ \E k \in ApiKeyStrings : CallValidateApiKey(NextSlot, k)

SpecValidation == Init /\ [][NextValidation]_vars
SpecValidationFaults == InitStoreFaults /\ [][NextValidation]_vars

\* Keys created and then presented, one call at a time.
NextApiKeys ==
    \/ Tick
    \/ \E ctx \in KeyOwners : CallCreateApiKey(1, ctx)
    \/ InsertApiKey(1)
    \/ \E k \in PresentedKeys : CallValidateCreatedKey(1, k)

SpecApiKeys == Init /\ [][NextApiKeys]_vars
SpecApiKeysFaults == InitStoreFaults /\ [][NextApiKeys]_vars

\* The steps of the handleAuthCallback invocation in slot p.
AuthStep(p) ==
    \/ ExchangeCode(p)
    \/ FetchProfile(p)
    \/ FindUser(p)
    \/ UpdateUser(p)
    \/ InsertUser(p)
    \/ InsertSession(p)

\* Sign-ins one at a time, and validations of the session tokens they stored.
NextAuth ==
    \/ Tick
    \/ TimerTick
    \/ \E code \in AuthCodes : CallAuthCallback(1, code)
    \/ AuthStep(1)
    \/ \E tok \in StoredSessionTokens : CallValidateSession(1, StrVal(tok))

SpecAuth == Init /\ [][NextAuth]_vars
SpecAuthFaults == InitStoreFaults /\ [][NextAuth]_vars

\* Two sign-ins in flight at once, as two requests of the server are: request
\* n runs in slot n and the awaits of the two callbacks interleave freely.
CallAuthConcurrently(p, code) ==
    /\ inv[p].pc = "idle"
    /\ p = nreq + 1
    /\ CallAuthCallback(p, code)

NextAuthConcurrent ==
    \/ Tick
    \/ TimerTick
    \/ \E p \in Procs, code \in AuthCodes : CallAuthConcurrently(p, code)
    \/ \E p \in Procs : AuthStep(p)

SpecAuthConcurrent == Init /\ [][NextAuthConcurrent]_vars

\* The steps of the handler invocation in slot p.
HandlerStep(p) ==
    \/ LoadUser(p)
    \/ RefreshFetch(p)
    \/ PersistTokens(p)
    \/ DriveList(p)
    \/ DriveUpload(p)
    \/ DriveMeta(p)
    \/ DriveContent(p)
    \/ DriveDelete(p)
    \/ WriteAudit(p)
    \/ WriteFailureAudit(p)

\* Handlers called one at a time with a user context, as the handler tests do.
NextHandlers ==
    \/ Tick
    \/ \E op \in Handlers \cup {"refreshUserToken"}, ctx \in CallerContexts :
         CallHandler(1, op, ctx)
    \/ HandlerStep(1)

SpecHandlers == Init /\ [][NextHandlers]_vars
SpecHandlersFaults == InitStoreFaults /\ [][NextHandlers]_vars

\* Two requests of user 1 in flight at once: request n runs in slot n and the
\* awaits of the two invocations interleave freely.
CallConcurrently(p, op) ==
    /\ inv[p].pc = "idle"
    /\ p = nreq + 1
    /\ CallHandler(p, op, UserContext(1, users[1]))

\* The operations run concurrently; deleteFile, whose refresh repeats the
\* inline code of uploadFile, is exercised one call at a time in SpecHandlers.
ConcurrentOps == { "listFiles", "uploadFile", "downloadFile", "openWorkspaceDoc" }

ConcurrentStep(p) ==
    \/ LoadUser(p)
    \/ RefreshFetch(p)
    \/ PersistTokens(p)
    \/ DriveList(p)
    \/ DriveUpload(p)
    \/ DriveMeta(p)
    \/ DriveContent(p)
    \/ WriteAudit(p)

NextConcurrent ==
    \/ Tick
    \/ \E p \in Procs, op \in ConcurrentOps : CallConcurrently(p, op)
    \/ \E p \in Procs : ConcurrentStep(p)

SpecConcurrent == Init /\ [][NextConcurrent]_vars

\* downloadFile and openWorkspaceDoc called one at a time by user 1 on the
\* files of the drive.
CallWithFile(p, op, fileId) ==
    /\ Vacant(p)
    /\ nreq < MaxFileCalls
    /\ inv' = [inv EXCEPT ![p] =
                 Invoke(nreq + 1, "direct", op, UserContext(1, users[1]), fileId)]
    /\ nreq' = nreq + 1
    /\ UNCHANGED <<now, users, sessions, apiKeys, auditLogs, storeFaults>>

FileStep(p) ==
    \/ LoadUser(p)
    \/ RefreshFetch(p)
    \/ PersistTokens(p)
    \/ DriveMeta(p)
    \/ DriveContent(p)
    \/ WriteAudit(p)

NextFiles ==
    \/ Tick
    \/ \E op \in {"downloadFile", "openWorkspaceDoc"}, fileId \in DOMAIN DriveFiles :
         CallWithFile(1, op, fileId)
    \/ FileStep(1)

SpecFiles == Init /\ [][NextFiles]_vars

\* listFiles called one at a time by user 1 with every combination of folder
\* filter, search string and page token.
ListQueryInputs ==
    { [folderId |-> f, query |-> q, pageSize |-> n] :
        f \in {"", "d1"}, q \in {"", "q"}, n \in {10, 100} }
PageTokens == { "", "t2" }

CallListFiles(p, input, pageToken) ==
    /\ Free(p)
    /\ inv' = [inv EXCEPT ![p] =
                 [Invoke(nreq + 1, "direct", "listFiles", UserContext(1, users[1]), NoFile)
                    EXCEPT !.input = input, !.pageToken = pageToken]]
    /\ nreq' = nreq + 1
    /\ UNCHANGED <<now, users, sessions, apiKeys, auditLogs, storeFaults>>

ListStep(p) ==
    \/ LoadUser(p)
    \/ RefreshFetch(p)
    \/ PersistTokens(p)
    \/ DriveList(p)
    \/ WriteAudit(p)

NextList ==
    \/ Tick
    \/ \E input \in ListQueryInputs, pageToken \in PageTokens :
         CallListFiles(1, input, pageToken)
    \/ ListStep(1)

SpecList == Init /\ [][NextList]_vars

\* Every operation of the system, called one at a time: sign-ins, session and
\* API-key validations, and the handlers.
SystemCall ==
    \/ \E code \in AuthCodes : CallAuthCallback(1, code)
    \/ \E v \in SessionTokenValues : CallValidateSession(1, v)
    \/ \E tok \in StoredSessionTokens : CallValidateSession(1, StrVal(tok))
    \/ \E k \in ApiKeyStrings : CallValidateApiKey(1, k)
    \/ \E op \in Handlers \cup {"refreshUserToken"} :
         CallHandler(1, op, UserContext(1, users[1]))
    \/ CallCreateApiKey(1, UserContext(1, users[1]))

NextSystem ==
    \/ Tick
    \/ TimerTick
    \/ nreq < MaxSystemCalls /\ SystemCall
    \/ AuthStep(1)
    \/ HandlerStep(1)
    \/ InsertApiKey(1)

SpecSystem == Init /\ [][NextSystem]_vars

\* Requests arriving at the router, served one at a time.
NextRouter ==
    \/ Tick
    \/ \E route \in SessionRoutes, hdr \in AuthorizationHeaders :
         SessionRequest(1, route, hdr)
    \/ \E route \in ApiRoutes, hdr \in ApiKeyHeaders : ApiKeyRequest(1, route, hdr)
    \/ HandlerStep(1)
    \/ InsertApiKey(1)

SpecRouter == Init /\ [][NextRouter]_vars
SpecRouterFaults == InitStoreFaults /\ [][NextRouter]_vars

(* ------------------------------ properties ----------------------------- *)
\* C1: for a user whose stored token has expired when the handler loads it
\* (token_expiry <= now), every handler (list, upload, download, delete, open)
\* makes exactly one token request and makes it before any Drive call; every
\* Drive call of the invocation carries the token that request returned, a token
\* other than the stored one it loaded, and that token is the one stored for
\* the user.
C1_ExpiredTokenRefreshedOnceFirst ==
    \A p \in Procs :
        LET r == inv[p]
            tokenCalls == { i \in DOMAIN r.calls : r.calls[i].kind = "token" }
        IN (r.op \in Handlers /\ r.expiry0 # NoTime /\ r.expiry0 <= r.now0) =>
           /\ r.pc = "refresh" => r.calls = <<>>
           /\ r.pc # "refresh" => tokenCalls = {1}
           /\ \A i \in DOMAIN r.calls \ tokenCalls :
                /\ r.refresh = "ok"
                /\ r.calls[i].bearer = r.upd.access_token
                /\ r.calls[i].bearer # r.access0
                /\ users[r.ctx.userId].access_token = r.calls[i].bearer

\* An upload for a user whose token expired exactly at the time of the call
\* ended well after one token request followed by one Drive call.
C1_Witness ==
    \E p \in Procs :
        /\ inv[p].op = "uploadFile"
        /\ inv[p].expiry0 = inv[p].now0
        /\ inv[p].pc = "done" /\ inv[p].result = "ok"
        /\ Len(inv[p].calls) = 2
        /\ inv[p].calls[1].kind = "token"
        /\ inv[p].calls[2] = [kind |-> "upload", bearer |-> users[1].access_token]

\* C2: for a user whose stored token is valid beyond the refresh buffer when it
\* is loaded, no handler and no refreshUserToken call makes a token request, and
\* the stored access token, refresh token and expiry stay as loaded.
C2_ValidTokenNotRefreshed ==
    \A p \in Procs :
        LET r == inv[p] IN
        (/\ r.op \in Handlers \cup {"refreshUserToken"}
         /\ r.expiry0 # NoTime
         /\ r.expiry0 > r.now0 + RefreshBufferMin) =>
        /\ r.refresh = "none"
        /\ \A i \in DOMAIN r.calls : r.calls[i].kind # "token"
        /\ users[r.ctx.userId].access_token = r.access0
        /\ users[r.ctx.userId].refresh_token = r.rtok
        /\ users[r.ctx.userId].token_expiry = r.expiry0

\* A listing for a user with a valid token ended well after a single Drive call
\* carrying the stored token.
C2_Witness ==
    \E p \in Procs :
        /\ inv[p].op = "listFiles"
        /\ inv[p].expiry0 > inv[p].now0 + RefreshBufferMin
        /\ inv[p].pc = "done" /\ inv[p].result = "ok"
        /\ inv[p].calls = << [kind |-> "list", bearer |-> users[1].access_token] >>

\* C3: once a refresh has succeeded and been written, in refreshUserToken and in
\* every handler alike, the stored refresh token is the provider's new one if the
\* response carried one and the one loaded otherwise, and the stored access
\* token, expiry and updated_at are the new ones.
C3_RefreshTokenRotatedIffIssued ==
    \A p \in Procs :
        LET r == inv[p] IN
        (r.refresh = "ok" /\ r.pc # "persist") =>
        /\ users[r.ctx.userId].refresh_token =
             IF r.rot # NoToken THEN r.rot ELSE r.rtok
        /\ users[r.ctx.userId].access_token = r.upd.access_token
        /\ users[r.ctx.userId].token_expiry = r.upd.token_expiry
        /\ users[r.ctx.userId].updated_at = r.upd.updated_at

\* C4: when the token endpoint answers with a failure the operation ends with
\* the token-refresh error, the stored tokens stay as loaded and the invocation
\* makes no Drive call.
C4_FailedRefreshLeavesTokens ==
    \A p \in Procs :
        LET r == inv[p] IN
        r.refresh = "failed" =>
        /\ r.pc \in {"failaudit", "done"}
        /\ r.pc = "failaudit" => r.err = "TokenRefreshFailed"
        /\ r.pc = "done" => r.result = "TokenRefreshFailed"
        /\ r.calls = << [kind |-> "token", bearer |-> NoToken] >>
        /\ users[r.ctx.userId].access_token = r.access0
        /\ users[r.ctx.userId].refresh_token = r.rtok
        /\ users[r.ctx.userId].token_expiry = r.expiry0

\* A download ended with the token-refresh error.
C4_Witness ==
    \E p \in Procs :
        /\ inv[p].op = "downloadFile"
        /\ inv[p].refresh = "failed"
        /\ inv[p].pc = "done"
        /\ inv[p].result = "TokenRefreshFailed"

\* C11: a createApiKey call that returns has appended exactly one key row, which
\* is active, owned by the caller, has no last_used_at and carries the returned
\* secret, a secret no other row carries; a call that fails appends nothing;
\* created keys stay active, and validateApiKey of a created key's secret
\* returns the context of the user who created it.
C11_CreateApiKeyAddsOneFreshActiveKey ==
    [][\A p \in Procs :
         LET r == inv[p]
             q == inv'[p]
             created == { i \in DOMAIN apiKeys : i > Len(SeedApiKeys) }
         IN /\ (r.pc = "insertKey" /\ q.pc = "done" /\ q.result = "ok") =>
                 /\ Len(apiKeys') = Len(apiKeys) + 1
                 /\ SubSeq(apiKeys', 1, Len(apiKeys)) = apiKeys
                 /\ apiKeys'[Len(apiKeys')] =
                      [user_id |-> r.ctx.userId, api_key |-> q.out,
                       is_active |-> TRUE, last_used_at |-> NoTime]
                 /\ \A i \in DOMAIN apiKeys : apiKeys[i].api_key # q.out
            /\ (r.pc = "insertKey" /\ q.pc = "done" /\ q.result # "ok") =>
                 apiKeys' = apiKeys
            /\ \A i \in created : apiKeys'[i].is_active
            /\ (nreq' = nreq + 1 /\ q.id = nreq' /\ q.op = "validateApiKey") =>
                 \A i \in created :
                     apiKeys[i].api_key = q.arg.str =>
                     q.ret = UserContext(apiKeys[i].user_id, users[apiKeys[i].user_id])
      ]_vars

\* User 1 created two keys with different secrets and both have since been
\* validated, the latest validation returning user 1's context.
C11_Witness ==
    /\ Len(apiKeys) = Len(SeedApiKeys) + 2
    /\ \A i \in {Len(apiKeys) - 1, Len(apiKeys)} :
         /\ apiKeys[i].user_id = 1
         /\ apiKeys[i].is_active
         /\ apiKeys[i].last_used_at # NoTime
    /\ apiKeys[Len(apiKeys) - 1].api_key # apiKeys[Len(apiKeys)].api_key
    /\ inv[1].op = "validateApiKey"
    /\ inv[1].arg.str = apiKeys[Len(apiKeys)].api_key
    /\ inv[1].ret = UserContext(1, users[1])

\* C12: the users table never holds two rows with one Google id; the upsert of
\* a callback whose profile id is already stored changes that row alone, keeping
\* its internal id and Google id and giving it the callback's access token,
\* refresh token and expiry, tokens that differ from the ones stored before, and
\* a later updated_at; the upsert of a callback with a new profile id appends
\* exactly one row; no other step of a callback writes to the users table.
C12_OneUserPerGoogleId ==
    [][/\ \A u, v \in DOMAIN users' :
            users'[u].google_id = users'[v].google_id => u = v
       /\ \A p \in Procs :
            LET r == inv[p]
                q == inv'[p]
                old == { u \in DOMAIN users : users[u].google_id = r.profile.id }
            IN (r.op = "handleAuthCallback" /\ nreq' = nreq) =>
               IF r.pc \in {"updateUser", "insertUser"} /\ q.pc = "insertSession"
               THEN IF old # {}
                    THEN /\ q.uid \in old
                         /\ DOMAIN users' = DOMAIN users
                         /\ \A v \in DOMAIN users : v # q.uid => users'[v] = users[v]
                         /\ users'[q.uid].google_id = r.profile.id
                         /\ users'[q.uid].access_token = r.upd.access_token
                         /\ users'[q.uid].refresh_token = r.upd.refresh_token
                         /\ users'[q.uid].token_expiry = r.upd.token_expiry
                         /\ users'[q.uid].access_token # users[q.uid].access_token
                         /\ users'[q.uid].refresh_token # users[q.uid].refresh_token
                         /\ users'[q.uid].updated_at > users[q.uid].updated_at
                    ELSE /\ Len(users') = Len(users) + 1
                         /\ SubSeq(users', 1, Len(users)) = users
                         /\ q.uid = Len(users')
                         /\ users'[q.uid].google_id = r.profile.id
               ELSE users' = users
      ]_vars

\* Two callbacks, with codes a and a_1 that name the same Google user, have
\* both returned: one user row was added, it carries the tokens of the second
\* callback, and each callback stored a session.
C12_Witness ==
    /\ Len(users) = 3
    /\ Len(sessions) = Len(SeedSessions) + 2
    /\ users[3].google_id = "google_user_a"
    /\ inv[1].op = "handleAuthCallback"
    /\ inv[1].id = 2
    /\ inv[1].arg.str = <<"a", "_", "1">>
    /\ inv[1].result = "ok"
    /\ inv[1].uid = 3
    /\ users[3].access_token = inv[1].upd.access_token
    /\ users[3].access_token \div 100 = CodeIndex(<<"a", "_", "1">>)

\* C13: a callback stores exactly one session row, as its last step before it
\* returns: the row is active, belongs to the returned user, carries the returned
\* session token and expires 24 hours after a moment of the call; and
\* validateSession of the token of such a row, before the row's expiry, returns
\* the context of that user.
C13_CallbackStoresOneLiveSession ==
    [][\A p \in Procs :
         LET r == inv[p]
             q == inv'[p]
             issued == { i \in DOMAIN sessions : i > Len(SeedSessions) }
         IN /\ (r.op = "handleAuthCallback" /\ nreq' = nreq) =>
                 IF r.pc = "insertSession" /\ q.result = "ok"
                 THEN /\ Len(sessions') = Len(sessions) + 1
                      /\ SubSeq(sessions', 1, Len(sessions)) = sessions
                      /\ q.pc = "done"
                      /\ q.ret = UserContext(r.uid, users[r.uid])
                      /\ LET row == sessions'[Len(sessions')] IN
                           /\ row.is_active
                           /\ row.user_id = q.ret.userId
                           /\ row.session_token = q.out
                           /\ row.expires_at >= r.start + SessionTtlMin
                           /\ row.expires_at <= now + SessionTtlMin
                 ELSE /\ sessions' = sessions
                      /\ r.pc # "done" => q.result # "ok"
            /\ (nreq' = nreq + 1 /\ q.id = nreq' /\ q.op = "validateSession") =>
                 \A i \in issued :
                     (sessions[i].session_token = Trim(q.arg.str)
                      /\ now < sessions[i].expires_at) =>
                     q.ret = UserContext(sessions[i].user_id, users[sessions[i].user_id])
      ]_vars

\* The session token a callback returned for the new user 3 was validated and
\* user 3's context came back.
C13_Witness ==
    /\ Len(sessions) = Len(SeedSessions) + 1
    /\ sessions[Len(sessions)].user_id = 3
    /\ sessions[Len(sessions)].is_active
    /\ inv[1].op = "validateSession"
    /\ inv[1].arg.str = sessions[Len(sessions)].session_token
    /\ inv[1].now0 < sessions[Len(sessions)].expires_at
    /\ inv[1].ret = UserContext(3, users[3])

\* The provider requests of an invocation, in the order they were issued.
Kinds(r) == [i \in DOMAIN r.calls |-> r.calls[i].kind]

\* C14: deleteFile on a file the caller owns that is already trashed returns
\* success:false ("File is already in trash") and issues no DELETE call;
\* deleteFile on an owned, non-trashed file with a valid token issues exactly
\* one metadata call followed by exactly one DELETE call and, when the DELETE
\* succeeds, returns success:true with a message naming the file.
C14_DeleteTrashedOrOnce ==
    \A p \in Procs :
      LET r == inv[p]
          owned == /\ r.meta.status = 200
                   /\ r.meta.hasOwners
                   /\ r.ctx.email \in r.meta.owners
      IN  r.op = "deleteFile" =>
            /\ owned /\ r.meta.trashed =>
                 /\ r.pc = "done"
                 /\ r.result = "already_trashed"
                 /\ r.message = "File is already in trash"
                 /\ \A i \in DOMAIN r.calls : r.calls[i].kind # "DELETE"
            /\ owned /\ ~r.meta.trashed /\ r.refresh = "none" =>
                 /\ r.pc = "delete" => Kinds(r) = << "meta" >>
                 /\ r.pc # "delete" => Kinds(r) = << "meta", "DELETE" >>
                 /\ r.pc = "done" /\ r.replies = << TRUE, TRUE >> =>
                      /\ r.result = "ok"
                      /\ r.message = "File \"" \o r.meta.name \o "\" deleted successfully"

\* An owned file named n2 went to the trash after one metadata and one DELETE call.
C14_Witness ==
    /\ inv[1].op = "deleteFile"
    /\ inv[1].pc = "done"
    /\ inv[1].result = "ok"
    /\ inv[1].refresh = "none"
    /\ inv[1].meta.name = "n2"
    /\ ~inv[1].meta.trashed
    /\ inv[1].message = "File \"n2\" deleted successfully"
    /\ Kinds(inv[1]) = << "meta", "DELETE" >>

\* C15: deleteFile by a caller whose email is not among the file's owners,
\* including when the metadata has no owners list, fails with the
\* permission-denied error and issues no DELETE call.
C15_NonOwnerDeleteDenied ==
    \A p \in Procs :
      LET r == inv[p] IN
        /\ r.op = "deleteFile"
        /\ r.meta.status = 200
        /\ ~r.meta.hasOwners \/ r.ctx.email \notin r.meta.owners
        => /\ \/ r.pc = "failaudit" /\ r.err = "PermissionDenied"
              \/ r.pc = "done" /\ r.result = "PermissionDenied"
           /\ \A i \in DOMAIN r.calls : r.calls[i].kind # "DELETE"

\* A delete of a file whose metadata carries no owners list was refused.
C15_Witness ==
    /\ inv[1].op = "deleteFile"
    /\ inv[1].pc = "done"
    /\ inv[1].result = "PermissionDenied"
    /\ inv[1].meta.status = 200
    /\ ~inv[1].meta.hasOwners
    /\ Kinds(inv[1])[Len(inv[1].calls)] = "meta"

\* C16: Every failing path of deleteFile ends in its catch block: before the
\* error reaches the caller one audit entry with action delete, the requested
\* file id, a null file name and metadata operation=delete_failed with the
\* error message is written; if that write fails, the failure is swallowed.
\* Either way the caller receives the original error.
C16_DeleteFailureAudited ==
    [][ \A p \in Procs :
          LET r == inv[p]
              after == inv'[p]
          IN  /\ r.op = "deleteFile"
              /\ r.pc # "done"
              /\ after.pc = "done"
              /\ after.result \notin {"ok", "already_trashed"}
              => /\ r.pc = "failaudit"
                 /\ after.result = r.err
                 /\ \/ /\ after.failAudit = "written"
                       /\ auditLogs' = Append(auditLogs,
                             [user_id |-> r.ctx.userId, action |-> "delete",
                              file_id |-> r.fileId, file_name |-> FALSE,
                              metadata |-> [operation |-> "delete_failed",
                                            error |-> r.err,
                                            filters |-> NoInput]])
                    \/ /\ after.failAudit = "failed"
                       /\ auditLogs' = auditLogs ]_vars

\* The DELETE call failed, the failure entry could not be stored, and the
\* caller still received the DELETE error.
C16_Witness ==
    /\ inv[1].op = "deleteFile"
    /\ inv[1].pc = "done"
    /\ inv[1].result = "DeleteFailed"
    /\ inv[1].replies = << TRUE, FALSE >>
    /\ inv[1].failAudit = "failed"
    /\ auditLogs = <<>>

\* C17: A failure to write an audit entry never fails the parent operation:
\* when the provider work of list, upload, download, delete or
\* open-workspace-doc has succeeded and the audit insert fails, the caller
\* still receives the successful result.
C17_AuditFailureNeverSurfaces ==
    \A p \in Procs :
      LET r == inv[p] IN
        /\ r.op \in Handlers
        /\ r.audit = "failed"
        => /\ r.pc = "done"
           /\ r.result = "ok"

C20_NoProviderRetry ==
    \A p \in Procs :
      LET r == inv[p] IN
        r.op \in Handlers \cup {"refreshUserToken"} =>
          /\ \A i, j \in DOMAIN r.calls :
               r.calls[i].kind = r.calls[j].kind => i = j
          /\ \A i \in DOMAIN r.replies :
               ~r.replies[i] =>
                 /\ i = Len(r.calls)
                 /\ \/ r.pc = "failaudit" /\ r.err # ""
                    \/ r.pc = "done" /\ r.result \notin {"", "ok", "already_trashed"}

\* A listing refreshed its token, the list request was refused, and the call
\* ended with that error after two provider requests.
C20_Witness ==
    /\ inv[1].op = "listFiles"
    /\ inv[1].pc = "done"
    /\ inv[1].result = "DriveApiError"
    /\ Kinds(inv[1]) = << "token", "list" >>
    /\ inv[1].replies = << TRUE, FALSE >>

\* C21: For every file whose MIME type is a Google Workspace type (Docs,
\* Sheets, Slides, Forms, Drawings, Sites, Jamboard) downloadFile switches to
\* the export endpoint, and the mimeType it returns is the export type, never
\* the original Workspace MIME type.
C21_WorkspaceFilesAreExported ==
    \A p \in Procs :
      LET r == inv[p] IN
        /\ r.op = "downloadFile"
        /\ r.meta.status = 200
        /\ r.meta.mimeType \in WORKSPACE_MIME_TYPES
        => /\ r.downloadUrl.endpoint = "export"
           /\ r.finalMimeType \notin WORKSPACE_MIME_TYPES

\* C22: downloadFile of a file whose MIME type is in the export table
\* (document to docx, spreadsheet to xlsx, presentation to pptx, drawing to
\* png, script to json) requests the export endpoint with the mapped export
\* MIME type and returns that type and the file name with the mapped
\* extension appended only if the name does not already end with it,
\* whatever the size field says; any other file is fetched with alt=media and
\* returned with its original name and MIME type.
C22_ExportTableApplied ==
    \A p \in Procs :
      LET r == inv[p]
          m == r.meta
          docx == "application/vnd.openxmlformats-officedocument.wordprocessingml.document"
          xlsx == "application/vnd.openxmlformats-officedocument.spreadsheetml.sheet"
          pptx == "application/vnd.openxmlformats-officedocument.presentationml.presentation"
          expected ==
            CASE m.mimeType = "application/vnd.google-apps.document" ->
                   << docx, <<".", "d", "o", "c", "x">> >>
              [] m.mimeType = "application/vnd.google-apps.spreadsheet" ->
                   << xlsx, <<".", "x", "l", "s", "x">> >>
              [] m.mimeType = "application/vnd.google-apps.presentation" ->
                   << pptx, <<".", "p", "p", "t", "x">> >>
              [] m.mimeType = "application/vnd.google-apps.drawing" ->
                   << "image/png", <<".", "p", "n", "g">> >>
              [] m.mimeType = "application/vnd.google-apps.script" ->
                   << "application/vnd.google-apps.script+json",
                      <<".", "j", "s", "o", "n">> >>
              [] OTHER -> << "", <<>> >>
          ext == expected[2]
          tail == IF Len(m.name) >= Len(ext)
                  THEN SubSeq(m.name, Len(m.name) - Len(ext) + 1, Len(m.name))
                  ELSE <<>>
      IN  r.op = "downloadFile" /\ m.status = 200 =>
            /\ IF expected[1] # ""
               THEN /\ r.downloadUrl = [endpoint |-> "export", mimeType |-> expected[1]]
                    /\ r.finalMimeType = expected[1]
                    /\ r.finalName = IF tail = ext THEN m.name ELSE m.name \o ext
               ELSE /\ r.downloadUrl = [endpoint |-> "media", mimeType |-> ""]
                    /\ r.finalMimeType = m.mimeType
                    /\ r.finalName = m.name
            /\ Len(r.calls) > 0 /\ r.calls[Len(r.calls)].kind # "meta"
                 => r.calls[Len(r.calls)].kind = r.downloadUrl.endpoint

\* The document a.docx, reported with size 0, was exported and returned as
\* a.docx with the docx type.
C22_Witness ==
    /\ inv[1].op = "downloadFile"
    /\ inv[1].fileId = "f_docx"
    /\ inv[1].pc = "done"
    /\ inv[1].result = "ok"
    /\ inv[1].meta.size = 0
    /\ inv[1].finalName = <<"a", ".", "d", "o", "c", "x">>
    /\ inv[1].calls[Len(inv[1].calls)].kind = "export"

\* C23: openWorkspaceDoc returns editUrl and viewUrl equal to
\* https://docs.google.com/{segment}/d/{fileId}/edit and .../view with the
\* segment of the fixed table for each of the seven Workspace MIME types
\* (document, spreadsheets, presentation, forms, drawings, sites, jamboard)
\* and fails with the not-a-Workspace-document error for every other MIME
\* type; a metadata 404 fails as file-not-found and a 403 as access-denied;
\* no failing path writes an audit entry.
C23_OpenBuildsUrlsFromTable ==
    [][ \A p \in Procs :
          LET r == inv'[p]
              m == r.meta
              segment ==
                CASE m.mimeType = "application/vnd.google-apps.document" -> "document"
                  [] m.mimeType = "application/vnd.google-apps.spreadsheet" -> "spreadsheets"
                  [] m.mimeType = "application/vnd.google-apps.presentation" -> "presentation"
                  [] m.mimeType = "application/vnd.google-apps.form" -> "forms"
                  [] m.mimeType = "application/vnd.google-apps.drawing" -> "drawings"
                  [] m.mimeType = "application/vnd.google-apps.site" -> "sites"
                  [] m.mimeType = "application/vnd.google-apps.jam" -> "jamboard"
                  [] OTHER -> ""
          IN  r.op = "openWorkspaceDoc" /\ inv[p].op = "openWorkspaceDoc" =>
                /\ m.status = 200 /\ segment # "" =>
                     /\ r.editUrl = "https://docs.google.com/" \o segment
                                      \o "/d/" \o r.fileId \o "/edit"
                     /\ r.viewUrl = "https://docs.google.com/" \o segment
                                      \o "/d/" \o r.fileId \o "/view"
                     /\ r.pc = "done" => r.result = "ok"
                /\ m.status = 200 /\ segment = "" =>
                     r.pc = "done" /\ r.result = "NotWorkspaceDocument"
                /\ m.status = 404 => r.pc = "done" /\ r.result = "FileNotFound"
                /\ m.status = 403 => r.pc = "done" /\ r.result = "PermissionDenied"
                /\ auditLogs' # auditLogs => r.pc = "done" /\ r.result = "ok"
                /\ r.pc = "done" /\ r.result # "ok" =>
                     r.editUrl = "" /\ r.viewUrl = "" ]_vars

\* The spreadsheet f_sheet was opened: both URLs carry the segment spreadsheets.
C23_Witness ==
    /\ inv[1].op = "openWorkspaceDoc"
    /\ inv[1].fileId = "f_sheet"
    /\ inv[1].pc = "done"
    /\ inv[1].result = "ok"
    /\ inv[1].editUrl = "https://docs.google.com/spreadsheets/d/f_sheet/edit"
    /\ inv[1].viewUrl = "https://docs.google.com/spreadsheets/d/f_sheet/view"
    /\ Len(auditLogs) = 1

\* C26: downloadFile fetches the file metadata before any content: a 404 on
\* metadata fails as file-not-found and any other non-success on metadata
\* fails with the generic metadata error, in both cases without a content or
\* export request; a non-success content or export answer fails with the
\* generic download error; none of these failures writes an audit entry or
\* returns content.
C26_DownloadFailuresEndTheCall ==
    [][ \A p \in Procs :
          LET r == inv'[p]
              content == { i \in DOMAIN r.calls : r.calls[i].kind \in {"export", "media"} }
          IN  r.op = "downloadFile" /\ inv[p].op = "downloadFile" =>
                /\ \A i \in content :
                     /\ i > 1
                     /\ r.calls[i - 1].kind = "meta"
                     /\ r.replies[i - 1]
                /\ r.meta.status \notin {0, 200} =>
                     /\ r.pc = "done"
                     /\ r.result = IF r.meta.status = 404 THEN "FileNotFound"
                                                           ELSE "MetadataError"
                     /\ content = {}
                /\ \A i \in content : ~r.replies[i] =>
                     r.pc = "done" /\ r.result = "DownloadFailed"
                /\ r.pc = "done" /\ r.result # "ok" =>
                     /\ auditLogs' = auditLogs
                     /\ r.audit = "none"
                /\ auditLogs' # auditLogs => r.pc = "done" /\ r.result = "ok" ]_vars

\* The metadata of a.txt arrived, the alt=media request was refused, and the
\* call ended with the download error and no audit entry.
C26_Witness ==
    /\ inv[1].op = "downloadFile"
    /\ inv[1].fileId = "f_txt"
    /\ inv[1].pc = "done"
    /\ inv[1].result = "DownloadFailed"
    /\ inv[1].replies[Len(inv[1].replies)] = FALSE
    /\ inv[1].calls[Len(inv[1].calls)].kind = "media"
    /\ auditLogs = <<>>

\* C24: The list query sent to the provider is the conjunction, joined by
\* ' and ' in this fixed order, of "'<folderId>' in parents" when a folder
\* filter is given, "name contains '<query>'" when a search string is given,
\* and always "trashed = false"; and the pageToken parameter is sent only when
\* a page token is given.
C24_ListQueryComposed ==
    \A p \in Procs :
      LET r == inv[p]
          sent == Len(r.calls) > 0 /\ r.calls[Len(r.calls)].kind = "list"
          reference ==
            CASE r.input.folderId = "" /\ r.input.query = "" -> "trashed = false"
              [] r.input.folderId = "d1" /\ r.input.query = "" ->
                   "'d1' in parents and trashed = false"
              [] r.input.folderId = "" /\ r.input.query = "q" ->
                   "name contains 'q' and trashed = false"
              [] r.input.folderId = "d1" /\ r.input.query = "q" ->
                   "'d1' in parents and name contains 'q' and trashed = false"
      IN  r.op = "listFiles" /\ sent =>
            /\ r.params[1] = << "q", reference >>
            /\ r.params[2] = << "pageSize", IF r.input.pageSize = 10 THEN "10" ELSE "100" >>
            /\ (\E i \in DOMAIN r.params : r.params[i][1] = "pageToken")
                 <=> r.pageToken # ""
            /\ r.pageToken # "" =>
                 r.params[Len(r.params)] = << "pageToken", r.pageToken >>

\* A listing of folder d1 filtered by q, continued from page token t2, was sent.
C24_Witness ==
    /\ inv[1].op = "listFiles"
    /\ inv[1].pc = "done"
    /\ inv[1].result = "ok"
    /\ inv[1].input.folderId = "d1"
    /\ inv[1].input.query = "q"
    /\ inv[1].pageToken = "t2"
    /\ inv[1].params[1] =
         << "q", "'d1' in parents and name contains 'q' and trashed = false" >>
    /\ Len(inv[1].params) = 5

\* C25: The refresh decision is needsRefresh = now >= (expiry - buffer):
\* refreshUserToken and listFiles use a 5-minute buffer, so a token expiring
\* within 5 minutes is refreshed and one expiring later is not; upload,
\* download, delete and open-workspace-doc use no buffer and refresh exactly
\* when now >= expiry.
C25_RefreshDecisionByBuffer ==
    \A p \in Procs :
      LET r == inv[p]
          buffer == IF r.op \in {"refreshUserToken", "listFiles"} THEN 5 ELSE 0
          decided == r.pc = "refresh" \/ r.refresh # "none"
      IN  /\ r.op \in Handlers \cup {"refreshUserToken"}
          /\ r.expiry0 # NoTime
          => (decided <=> r.now0 >= r.expiry0 - buffer)

\* refreshUserToken found a token with exactly five minutes left and refreshed it.
C25_Witness ==
    /\ inv[1].op = "refreshUserToken"
    /\ inv[1].pc = "done"
    /\ inv[1].refresh = "ok"
    /\ inv[1].expiry0 = inv[1].now0 + 5

\* C27: Any two auth-callback calls return different session tokens, so no
\* callback's session insert collides with an existing session token: every
\* callback that has upserted its user also persists its session.
C27_SessionTokensNeverCollide ==
    /\ \A p \in Procs :
         /\ inv[p].op = "handleAuthCallback"
         /\ inv[p].pc = "done"
         /\ inv[p].uid # 0
         => inv[p].result = "ok"
    /\ \A p, q \in Procs :
         /\ p # q
         /\ inv[p].op = "handleAuthCallback" /\ inv[q].op = "handleAuthCallback"
         /\ inv[p].result = "ok" /\ inv[q].result = "ok"
         => inv[p].out # inv[q].out

\* C28: In deleteFile the ownership check precedes the trashed check: a
\* non-owner deleting an already-trashed file gets the permission-denied
\* error, with a delete_failed audit entry, never the already-trashed result;
\* and the already-trashed result (success:false) is returned straight from
\* the metadata answer without writing any audit entry.
C28_OwnershipBeforeTrashed ==
    [][ \A p \in Procs :
          LET r == inv[p]
              after == inv'[p]
              m == after.meta
          IN  after.op = "deleteFile" /\ r.op = "deleteFile" =>
                /\ /\ m.status = 200
                   /\ m.trashed
                   /\ ~m.hasOwners \/ after.ctx.email \notin m.owners
                   => /\ after.result # "already_trashed"
                      /\ after.pc = "failaudit" => after.err = "PermissionDenied"
                      /\ after.pc = "done" =>
                           /\ after.result = "PermissionDenied"
                           /\ r.pc = "failaudit" =>
                                /\ Len(auditLogs') = Len(auditLogs) + 1
                                /\ auditLogs'[Len(auditLogs')].metadata =
                                     [operation |-> "delete_failed",
                                      error |-> "PermissionDenied",
                                      filters |-> NoInput]
                /\ after.result = "already_trashed" /\ r.pc # "done" =>
                     /\ r.pc = "meta"
                     /\ after.pc = "done"
                     /\ auditLogs' = auditLogs
                /\ auditLogs' # auditLogs => r.pc \in {"audit", "failaudit"} ]_vars

\* A caller who is not an owner asked to delete a trashed file: refused, and
\* the refusal is on record.
C28_Witness ==
    /\ inv[1].op = "deleteFile"
    /\ inv[1].pc = "done"
    /\ inv[1].meta.status = 200
    /\ inv[1].meta.trashed
    /\ inv[1].meta.hasOwners
    /\ inv[1].ctx.email \notin inv[1].meta.owners
    /\ inv[1].result = "PermissionDenied"
    /\ Len(auditLogs) = 1
    /\ auditLogs[1].metadata.operation = "delete_failed"
    /\ auditLogs[1].metadata.error = "PermissionDenied"

\* C29: validateSession writes to the store only when it finds an active
\* session with the given token whose expiry has passed, and then changes
\* only that one session's active flag to false; otherwise it leaves all
\* user, session, API-key and audit rows unchanged. No operation of the
\* system ever sets a session's active flag back from false to true or
\* deletes a session.
C29_ValidateSessionFrame ==
    [][ /\ Len(sessions') >= Len(sessions)
        /\ \A i \in DOMAIN sessions :
             /\ sessions'[i].user_id = sessions[i].user_id
             /\ sessions'[i].session_token = sessions[i].session_token
             /\ sessions'[i].expires_at = sessions[i].expires_at
             /\ sessions'[i].is_active => sessions[i].is_active
        /\ \A p \in Procs :
             inv'[p].op = "validateSession" /\ inv'[p].id = nreq + 1 =>
               LET v == inv'[p].arg
                   given == v.truthy /\ v.type = "string"
                   expired == { i \in DOMAIN sessions :
                                  /\ given
                                  /\ sessions[i].session_token = Trim(v.str)
                                  /\ sessions[i].is_active
                                  /\ sessions[i].expires_at <= now }
               IN  /\ users' = users
                   /\ apiKeys' = apiKeys
                   /\ auditLogs' = auditLogs
                   /\ IF expired = {}
                      THEN sessions' = sessions
                      ELSE \E i \in expired :
                             sessions' = [sessions EXCEPT ![i].is_active = FALSE] ]_vars

\* The expired session x was presented: it alone was deactivated, the other
\* sessions are as they were.
C29_Witness ==
    /\ inv[1].op = "validateSession"
    /\ inv[1].arg = StrVal(<<"x">>)
    /\ inv[1].ret = NullCtx
    /\ ~sessions[1].is_active
    /\ sessions = [SeedSessions EXCEPT ![1].is_active = FALSE]

C5_ContextOnlyForLiveSession ==
    [][\A p \in Procs :
         (nreq' = nreq + 1 /\ inv'[p].id = nreq' /\ inv'[p].op = "validateSession") =>
         LET v == inv'[p].arg
             ret == inv'[p].ret
             live == { i \in DOMAIN sessions :
                         /\ v.type = "string"
                         /\ sessions[i].session_token = Trim(v.str)
                         /\ sessions[i].is_active
                         /\ sessions[i].expires_at > now }
         IN /\ inv'[p].result = "returned"
            /\ ret.kind = "ctx" =>
                 \E i \in live :
                     ret = UserContext(sessions[i].user_id, users[sessions[i].user_id])
            /\ live = {} => ret = NullCtx
            /\ (v.type = "string" /\ Trim(v.str) = <<>>) => ret = NullCtx
      ]_vars

\* A token padded with whitespace was validated and the owner's context returned.
C5_Witness ==
    \E p \in Procs :
        /\ inv[p].op = "validateSession"
        /\ inv[p].arg = StrVal(<<" ", "y">>)
        /\ inv[p].ret = UserContext(2, users[2])

\* C6: validating the token of a session whose expiry has passed reports
\* invalid and leaves the session inactive, at the first such validation and at
\* every later one.
C6_ExpiredSessionDeactivated ==
    \A p \in Procs :
        (inv[p].op = "validateSession" /\ inv[p].arg.type = "string") =>
        \A i \in DOMAIN sessions :
            (/\ sessions[i].session_token = Trim(inv[p].arg.str)
             /\ sessions[i].expires_at <= inv[p].now0) =>
            /\ inv[p].ret = NullCtx
            /\ ~sessions[i].is_active

\* The expired session x was validated twice: the first call deactivated it, the
\* second found it inactive; both reported invalid.
C6_Witness ==
    /\ inv[1].id = 1 /\ inv[2].id = 2
    /\ \A p \in Procs :
         /\ inv[p].op = "validateSession"
         /\ Trim(inv[p].arg.str) = <<"x">>
         /\ inv[p].now0 >= sessions[1].expires_at
         /\ inv[p].ret = NullCtx
    /\ ~sessions[1].is_active

\* C7: validateSession never throws: whatever the input (a string or not) and
\* whichever store statement fails, it returns, and what it returns for a
\* non-string input or after a failed statement is the invalid result.
C7_ValidateSessionNeverThrows ==
    \A p \in Procs :
        inv[p].op = "validateSession" =>
        /\ inv[p].result = "returned"
        /\ inv[p].ret.kind \in {"null", "ctx"}
        /\ inv[p].arg.type # "string" => inv[p].ret = NullCtx

\* On a failing store the token of the live session y was reported invalid, the
\* session left active: the lookup failed and the failure was swallowed.
C7_Witness ==
    /\ storeFaults
    /\ \E p \in Procs :
         /\ inv[p].op = "validateSession"
         /\ inv[p].arg = StrVal(<<"y">>)
         /\ inv[p].result = "returned"
         /\ inv[p].ret = NullCtx
         /\ sessions[2].is_active
         /\ sessions[2].expires_at > inv[p].now0

\* C8: validateApiKey never throws: a failing store statement is reported as the
\* invalid result.
C8_ValidateApiKeyNeverThrows ==
    \A p \in Procs :
        inv[p].op = "validateApiKey" =>
        /\ inv[p].result = "returned"
        /\ inv[p].ret.kind \in {"null", "ctx"}

\* C9: a files.* or auth.createApiKey handler starts only when validateSession
\* returned a context for the Bearer token of the request, and an api.* handler
\* only when validateApiKey returned one for its x-api-key header; any other
\* request ends as UNAUTHORIZED with no provider call and no write to the users,
\* audit or key tables; and every write of a started handler is for the user
\* whose context the validation returned.
C9_HandlersRunOnlyForValidatedUser ==
    [][\A p \in Procs :
         LET r == inv[p]
             q == inv'[p]
             liveSessions ==
                 { i \in DOMAIN sessions :
                     /\ sessions[i].session_token = Trim(q.arg.str)
                     /\ sessions[i].is_active
                     /\ sessions[i].expires_at > now }
             liveKeys ==
                 { i \in DOMAIN apiKeys :
                     apiKeys[i].api_key = q.arg.str /\ apiKeys[i].is_active }
         IN /\ (nreq' = nreq + 1 /\ q.id = nreq' /\ q.pc # "done") =>
                 /\ q.op = RouteHandler(q.route)
                 /\ q.ctx = q.ret
                 /\ q.route \in SessionRoutes =>
                      \E i \in liveSessions :
                          q.ret = UserContext(sessions[i].user_id,
                                              users[sessions[i].user_id])
                 /\ q.route \in ApiRoutes =>
                      \E i \in liveKeys :
                          q.ret = UserContext(apiKeys[i].user_id,
                                              users[apiKeys[i].user_id])
            /\ (nreq' = nreq + 1 /\ q.id = nreq' /\ q.pc = "done") =>
                 /\ q.result = "UNAUTHORIZED"
                 /\ q.op = "" /\ q.calls = <<>>
                 /\ users' = users /\ auditLogs' = auditLogs /\ apiKeys' = apiKeys
            /\ (nreq' = nreq /\ r.pc \notin {"idle", "done"}) =>
                 /\ q.ctx = r.ret
                 /\ \A u \in DOMAIN users : u # r.ret.userId => users'[u] = users[u]
                 /\ auditLogs' # auditLogs =>
                      /\ Len(auditLogs') = Len(auditLogs) + 1
                      /\ SubSeq(auditLogs', 1, Len(auditLogs)) = auditLogs
                      /\ auditLogs'[Len(auditLogs')].user_id = r.ret.userId
                 /\ apiKeys' # apiKeys =>
                      /\ Len(apiKeys') = Len(apiKeys) + 1
                      /\ SubSeq(apiKeys', 1, Len(apiKeys)) = apiKeys
                      /\ apiKeys'[Len(apiKeys')].user_id = r.ret.userId
      ]_vars

\* An upload sent to api.uploadFile with user 2's key m ended well, its audit
\* entry written for user 2.
C9_Witness ==
    \E p \in Procs :
        /\ inv[p].route = "api.uploadFile"
        /\ inv[p].arg = StrVal(<<"m">>)
        /\ inv[p].ret = UserContext(2, users[2])
        /\ inv[p].pc = "done" /\ inv[p].result = "ok"
        /\ auditLogs # <<>>
        /\ auditLogs[Len(auditLogs)].user_id = 2

\* C10: validateApiKey(k) returns the owner's context and sets the matched
\* key's last_used_at to the current time exactly when an active key equal to k,
\* untrimmed, exists; otherwise it reports invalid and writes nothing; the
\* last_used_at of every other key is unchanged either way.
C10_ExactKeyMatchTouchesOnlyThatKey ==
    [][\A p \in Procs :
         (nreq' = nreq + 1 /\ inv'[p].id = nreq' /\ inv'[p].op = "validateApiKey") =>
         LET k == inv'[p].arg.str
             ret == inv'[p].ret
             match == { i \in DOMAIN apiKeys :
                          apiKeys[i].api_key = k /\ apiKeys[i].is_active }
         IN IF match # {}
            THEN \E i \in match :
                   /\ ret = UserContext(apiKeys[i].user_id, users[apiKeys[i].user_id])
                   /\ apiKeys' = [apiKeys EXCEPT ![i].last_used_at = now]
            ELSE ret = NullCtx /\ apiKeys' = apiKeys
      ]_vars

\* Key k was validated after the clock had advanced: its owner's context came
\* back and only k carries the time of the call.
C10_Witness ==
    \E p \in Procs :
        /\ inv[p].op = "validateApiKey"
        /\ inv[p].arg = StrVal(<<"k">>)
        /\ inv[p].now0 > 0
        /\ inv[p].ret = UserContext(1, users[1])
        /\ apiKeys[1].last_used_at = inv[p].now0
        /\ apiKeys[2].last_used_at = NoTime

====
